---- MODULE Spec2Model ----
(***************************************************************************)
(* Verification model of the monitoring layer of rebound:                  *)
(*   src/src/output.c   - output scheduler, velocity dispersion            *)
(*   src/src/display.c  - OpenGL visualisation (display, keys, textures)   *)
(*                                                                         *)
(* Real numbers (C double / GLfloat) are modelled as exact extended        *)
(* rationals <<n, d>>: d > 0 is the fraction n/d in lowest terms,          *)
(* <<1,0>> and <<-1,0>> are +inf and -inf, <<0,0>> is NaN.  Rounding is    *)
(* not modelled; division by zero, inf and NaN propagate as in IEEE 754.   *)
(***************************************************************************)
EXTENDS Integers, Sequences, FiniteSets, TLC

VARIABLES
    t,              \* main.h: current simulation time (in ticks)
    dt,             \* main.h: size of the step that led to t (in ticks)
    tmax,           \* main.h: end time of the simulation, 0 = run forever
    checked,        \* problem_output has run for the current t
    log             \* history: one entry per problem_output call

schedVars == <<t, dt, tmax, checked, log>>

VARIABLES
    MPI,            \* the build defines MPI
    mpi_num,        \* number of MPI processes (workers); 1 without MPI
    SEI,            \* the build defines INTEGRATOR_SEI (shearing sheet)
    OMEGA,          \* shear rate of the shearing sheet
    particles,      \* particles[w]: the particle array of worker w
    pc,             \* pc[w]: position of worker w in output_append_velocity_dispersion
    i,              \* i[w]: loop index of the fold loop
    A,              \* A[w]: running mean, a vec3
    Q,              \* Q[w]: running sum of squared deviations, a vec3
    N_tot,          \* rank 0: total particle count
    A_tot,          \* rank 0: reduced mean
    Q_tot,          \* rank 0: reduced Q, then the dispersion
    dispfile        \* the records appended to the dispersion file

statVars == <<MPI, mpi_num, SEI, OMEGA, particles, pc, i, A, Q,
              N_tot, A_tot, Q_tot, dispfile>>

VARIABLES
    COLLISIONS_NONE,            \* the build defines COLLISIONS_NONE
    TREE,                       \* the build defines TREE
    GRAVITY_TREE,               \* the build defines GRAVITY_TREE
    box,                        \* main.h: boxsize, boxsize_x, boxsize_y, boxsize_z
    nghost,                     \* main.h: <<nghostx, nghosty, nghostz>>
    N_active,                   \* main.h: number of active particles, -1 = all
    tree_root,                  \* tree.h: the cells of the tree, in pre-order
    test_raw,                   \* file system: test.raw is readable in a search directory
    texture_files,              \* file system: the texture files that can be opened
    display_mode,
    display_init_fancy_done,
    display_pause_sim,
    display_pause,
    display_tree,
    display_mass,
    display_wire,
    display_clear,
    display_ghostboxes,
    display_sphere_scale,
    display_texture_id,         \* [null, ids]: NULL or the handle table
    display_texture_name,       \* [null, names]: NULL or the name table
    display_texture_path,       \* "NULL", "" or the directory found
    glutIdle,                   \* the registered idle callback
    gl_modelview,               \* OpenGL: the current model transform
    gl_textures,                \* OpenGL: number of texture names generated
    loads,                      \* history: the names passed to display_load_texture
    allocs,                     \* history: number of calloc/malloc calls
    frame,                      \* history: what the last call of display() did
    nkeys,                      \* history: number of keys pressed
    exited,                     \* exit(0) has been called
    LIBPNG,                     \* the build defines LIBPNG
    tree_time                   \* tree.h: [tree, gravity]: twice the simulation
                                \* time whose particle positions the cells of the
                                \* tree, and their gravity data, reflect

buildVars == <<COLLISIONS_NONE, TREE, GRAVITY_TREE, LIBPNG>>

sceneVars == <<box, nghost, N_active, tree_root, test_raw, texture_files>>

toggleVars == <<display_mode, display_pause_sim, display_pause, display_tree,
                display_mass, display_wire, display_clear, display_ghostboxes,
                display_sphere_scale, glutIdle>>

textureVars == <<display_init_fancy_done, display_texture_id, display_texture_name,
                 display_texture_path, gl_textures, loads, allocs>>

dispVars == <<buildVars, sceneVars, toggleVars, textureVars,
              gl_modelview, frame, nkeys, exited, tree_time>>

VARIABLES
    velocity_bins_electrons,    \* problems/yacine: the histogram of the electrons, <<>> = not allocated
    velocity_bins_protons,      \* problems/yacine: the histogram of the protons, <<>> = not allocated
    bin_particles,              \* problems/yacine: the particle array, N = its length
    bin_i,                      \* velocity_bins_add: the loop index i
    bin_pc,                     \* position in velocity_bins_add
    bin_calls,                  \* number of calls of velocity_bins_add so far
    bin_used                    \* history: the bin of every increment made

binVars == <<velocity_bins_electrons, velocity_bins_protons, bin_particles,
             bin_i, bin_pc, bin_calls, bin_used>>

VARIABLES
    stacks,                 \* display_init: number of rings of the sphere, less one
    slices,                 \* display_init: number of vertices of a ring, less one
    VertexCount,            \* display.c: number of vertices of the sphere
    IndicesCount,           \* display.c: number of indices of the triangle strip
    sphereVBO,              \* display_init: the vertex array, <<>> = not allocated
    triangleStripIndices,   \* display_init: the index array, <<>> = not allocated
    counter,                \* display_init: the running vertex number
    mesh_i,                 \* display_init: the loop index i (ring)
    mesh_j,                 \* display_init: the loop index j (slice)
    mesh_pc,                \* position in the construction of the sphere
    idx_writes,             \* history: number of writes to each position of the index array
    outside                 \* history: the writes made outside the two arrays

meshVars == <<stacks, slices, VertexCount, IndicesCount, sphereVBO,
              triangleStripIndices, counter, mesh_i, mesh_j, mesh_pc,
              idx_writes, outside>>

vars == <<schedVars, statVars, dispVars, binVars, meshVars>>

\* ------------------------------------------------------------------------
\* Bounds of the model
\* ------------------------------------------------------------------------
MaxSteps == 4
MaxDt == 6
MaxI == 10
PhaseDen == 4
MaxW == 2
MaxN == 3
MaxKeys == 3
MaxGhost == 1
MaxND == 3
MaxSimT == 1
MaxBinN == 2
MaxCalls == 2
MaxStacks == 3
MaxSlices == 3

\* ------------------------------------------------------------------------
\* Extended rational arithmetic (C double without rounding)
\* ------------------------------------------------------------------------
Abs(n) == IF n < 0 THEN -n ELSE n

Sign(n) == IF n > 0 THEN 1 ELSE IF n < 0 THEN -1 ELSE 0

RECURSIVE GCD(_, _)
GCD(a, b) == IF b = 0 THEN a ELSE GCD(b, a % b)

Norm(r) ==
    IF r[2] = 0 THEN <<Sign(r[1]), 0>>
    ELSE LET g == GCD(Abs(r[1]), Abs(r[2]))
             s == Sign(r[2])
         IN  <<(s * r[1]) \div g, (s * r[2]) \div g>>

RInt(n) == <<n, 1>>

Frac(n, d) == Norm(<<n, d>>)

NaN == <<0, 0>>

IsNaN(r) == r = NaN

IsInf(r) == r[2] = 0 /\ r[1] # 0

IsFinite(r) == r[2] > 0

RNeg(a) == <<-a[1], a[2]>>

RAdd(a, b) ==
    IF IsInf(a) /\ IsInf(b) THEN (IF a = b THEN a ELSE NaN)
    ELSE Norm(<<a[1] * b[2] + b[1] * a[2], a[2] * b[2]>>)

RSub(a, b) == RAdd(a, RNeg(b))

RMul(a, b) == Norm(<<a[1] * b[1], a[2] * b[2]>>)

RInv(a) == Norm(<<a[2], a[1]>>)

RDiv(a, b) == RMul(a, RInv(b))

\* C comparison a != b on doubles: NaN differs from everything
RNeq(a, b) == IsNaN(a) \/ IsNaN(b) \/ a # b

\* C comparison a == b on doubles
REq(a, b) == ~RNeq(a, b)

RLess(a, b) ==
    /\ ~IsNaN(a) /\ ~IsNaN(b) /\ a # b
    /\ IF IsInf(a) THEN a[1] < 0
       ELSE IF IsInf(b) THEN b[1] > 0
       ELSE a[1] * b[2] < b[1] * a[2]

\* floor() of math.h; inf and NaN are returned unchanged
RFloor(a) == IF a[2] = 0 THEN a ELSE <<a[1] \div a[2], 1>>

\* sqrt() of math.h, kept symbolic: the non-negative root of the radicand
\* (NaN for a negative or NaN radicand)
RSqrt(a) == [sqrt |-> IF a[1] < 0 THEN NaN ELSE a]

\* struct vec3 {.x=0, .y=0, .z=0}
Vec0 == [x |-> RInt(0), y |-> RInt(0), z |-> RInt(0)]

VecAdd(a, b) == [x |-> RAdd(a.x, b.x), y |-> RAdd(a.y, b.y), z |-> RAdd(a.z, b.z)]

\* ------------------------------------------------------------------------
\* output.c: the output scheduler
\* ------------------------------------------------------------------------
Intervals == 1..MaxI

Phases == {Frac(p, PhaseDen) : p \in 0..(PhaseDen - 1)}

TmaxChoices == {0, 7}

\* mutant: the window is taken ahead of t, (t, t + dt], instead of behind it
output_check_phase_ahead(interval, phase) ==
    LET shift == RAdd(RInt(t), RMul(interval, phase))
    IN  IF RNeq(RFloor(RDiv(shift, interval)),
                RFloor(RDiv(RAdd(shift, RInt(dt)), interval)))
        THEN 1
        ELSE IF t = 0 \/ t = tmax THEN 1 ELSE 0

\* mutant: the end of the simulation is not treated as an output time
output_check_phase_noend(interval, phase) ==
    LET shift == RAdd(RInt(t), RMul(interval, phase))
    IN  IF RNeq(RFloor(RDiv(shift, interval)),
                RFloor(RDiv(RSub(shift, RInt(dt)), interval)))
        THEN 1
        ELSE IF t = 0 THEN 1 ELSE 0

\* mutant: the phase is not added to t
output_check_phase_nophase(interval, phase) ==
    LET shift == RInt(t)
    IN  IF RNeq(RFloor(RDiv(shift, interval)),
                RFloor(RDiv(RSub(shift, RInt(dt)), interval)))
        THEN 1
        ELSE IF t = 0 \/ t = tmax THEN 1 ELSE 0

output_check_phase(interval, phase) ==
    LET shift == RAdd(RInt(t), RMul(interval, phase))
    IN  IF RNeq(RFloor(RDiv(shift, interval)),
                RFloor(RDiv(RSub(shift, RInt(dt)), interval)))
        THEN 1
        ELSE IF t = 0 \/ t = tmax THEN 1 ELSE 0

output_check(interval) == output_check_phase(interval, RInt(0))

\* problems/wakes/problem.c: the per-step monitoring entry point; it asks
\* output_check for each of its intervals (here: every interval of Intervals)
\* and performs the output of those that fire.
problem_output ==
    /\ ~checked
    /\ checked' = TRUE
    /\ log' = Append(log, [t |-> t, dt |-> dt,
                           fired |-> [I \in Intervals |-> output_check(RInt(I))]])
    /\ UNCHANGED <<t, dt, tmax>>
    /\ UNCHANGED <<statVars, dispVars, binVars, meshVars>>

\* main loop: one (possibly non-uniform) step of the integrator
iterate ==
    /\ checked
    /\ Len(log) <= MaxSteps
    /\ \E d \in 1..MaxDt :
          /\ dt' = d
          /\ t' = t + d
    /\ checked' = FALSE
    /\ UNCHANGED <<tmax, log>>
    /\ UNCHANGED <<statVars, dispVars, binVars, meshVars>>

\* problems/yacine is not the problem of the run: no histogram is allocated
BinsIdle ==
    /\ velocity_bins_electrons = <<>> /\ velocity_bins_protons = <<>>
    /\ bin_particles = <<>>
    /\ bin_i = 0 /\ bin_pc = "idle" /\ bin_calls = 0
    /\ bin_used = <<>>

\* the sphere is not under construction: its arrays are not allocated
MeshIdle ==
    /\ stacks = 0 /\ slices = 0
    /\ VertexCount = 0 /\ IndicesCount = 0
    /\ sphereVBO = <<>> /\ triangleStripIndices = <<>>
    /\ counter = 0 /\ mesh_i = 0 /\ mesh_j = 0
    /\ mesh_pc = "idle"
    /\ idx_writes = <<>> /\ outside = {}

\* the dispersion output is not running
StatIdle ==
    /\ MPI = FALSE /\ mpi_num = 1 /\ SEI = FALSE /\ OMEGA = RInt(0)
    /\ particles = [w \in {0} |-> <<>>]
    /\ pc = [w \in {0} |-> "idle"]
    /\ i = [w \in {0} |-> 0]
    /\ A = [w \in {0} |-> Vec0]
    /\ Q = [w \in {0} |-> Vec0]
    /\ N_tot = 0 /\ A_tot = Vec0 /\ Q_tot = Vec0
    /\ dispfile = <<>>

\* struct vec3 of GLfloat as a triple
V3(a, b, c) == <<RInt(a), RInt(b), RInt(c)>>

\* the identity model transform: p |-> s * p + T, per axis
MvIdentity == [s |-> V3(1, 1, 1), T |-> V3(0, 0, 0)]

Uniform(a) == <<a, a, a>>

\* main.h: the box sizes
boxsize == box.size

boxsize_x == box.x

boxsize_y == box.y

boxsize_z == box.z

Max2(a, b) == IF a > b THEN a ELSE b

boxsize_max == Max2(boxsize_x, Max2(boxsize_y, boxsize_z))

\* zprInit / zprReset(0.85/boxsize_max): the reference view
zprReset == [s |-> Uniform(Frac(85, 100 * boxsize_max)), T |-> V3(0, 0, 0)]

NoFrame == [produced |-> FALSE]

\* display.c:52-66: the initial values of the globals of display.c
DisplayDefaults ==
    /\ display_mode = 0
    /\ display_init_fancy_done = 0
    /\ display_pause_sim = 0
    /\ display_pause = 0
    /\ display_tree = 0
    /\ display_mass = 0
    /\ display_wire = 0
    /\ display_clear = 1
    /\ display_ghostboxes = 0
    /\ display_sphere_scale = RInt(1)
    /\ display_texture_id = [null |-> TRUE, ids |-> <<>>]
    /\ display_texture_name = [null |-> TRUE, names |-> <<>>]
    /\ display_texture_path = "NULL"
    /\ glutIdle = "iterate"
    /\ gl_modelview = MvIdentity
    /\ gl_textures = 0
    /\ loads = <<>>
    /\ allocs = 0
    /\ frame = NoFrame
    /\ nkeys = 0
    /\ exited = FALSE
    /\ tree_time = [tree |-> 0, gravity |-> 0]

\* the visualisation is not part of the run
DispIdle ==
    /\ COLLISIONS_NONE = FALSE /\ TREE = FALSE /\ GRAVITY_TREE = FALSE
    /\ LIBPNG = FALSE
    /\ box = [size |-> 1, x |-> 1, y |-> 1, z |-> 1]
    /\ nghost = <<0, 0, 0>>
    /\ N_active = -1
    /\ tree_root = <<>>
    /\ test_raw = FALSE
    /\ texture_files = {}
    /\ DisplayDefaults

InitSched ==
    /\ StatIdle
    /\ BinsIdle
    /\ MeshIdle
    /\ DispIdle
    /\ t = 0
    /\ dt \in {1, MaxDt}
    /\ tmax \in TmaxChoices
    /\ checked = FALSE
    /\ log = <<>>

NextSched == problem_output \/ iterate

SpecSched == InitSched /\ [][NextSched]_vars

\* ------------------------------------------------------------------------
\* Properties of the output scheduler
\* ------------------------------------------------------------------------
\* some multiple of I lies in the half-open window (lo, hi]
HasMultiple(I, lo, hi) == \E m \in 0..hi : lo < m * I /\ m * I <= hi

\* the steps of the log that fired for I and whose window holds the point b
Reporters(I, b) ==
    {k \in 1..Len(log) : /\ log[k].fired[I] = 1
                          /\ log[k].t - log[k].dt < b
                          /\ b <= log[k].t}

\* C1: with phase 0, a step at t other than 0 and tmax fires iff a multiple
\* of the interval lies in (t - dt, t]; hence every multiple of the interval
\* passed so far has been reported by exactly one step of the run.
C1_FiresOncePerCrossing ==
    \A I \in Intervals :
        /\ \A k \in 1..Len(log) :
              (log[k].t # 0 /\ log[k].t # tmax)
                  => (log[k].fired[I] = 1
                         <=> HasMultiple(I, log[k].t - log[k].dt, log[k].t))
        /\ Len(log) > 0 =>
              \A m \in 0..(log[Len(log)].t \div I) :
                  Cardinality(Reporters(I, m * I)) = 1

\* the run t = 0, 3, 9, 12, 16 with interval 10 (the run 0, 0.3, 0.9, 1.2,
\* 1.6 with interval 1 in ticks of 0.1) has fired at t = 0 and t = 12 only
C1_Witness ==
    /\ Len(log) = 5
    /\ [k \in 1..5 |-> log[k].t] = <<0, 3, 9, 12, 16>>
    /\ [k \in 1..5 |-> log[k].fired[10]] = <<1, 0, 0, 1, 0>>

\* C2: at t = 0 and at t = tmax the check returns 1 for every interval and
\* every phase, whatever the step and whether or not a multiple of the
\* interval lies in (t - dt, t].
C2_FiresAtStartAndEnd ==
    (t = 0 \/ t = tmax) =>
        /\ \A I \in Intervals : \A p \in Phases :
              output_check_phase(RInt(I), p) = 1
        /\ \A I \in Intervals : output_check(RInt(I)) = 1
        /\ checked => \A I \in Intervals : log[Len(log)].fired[I] = 1

\* the end of the simulation is reached by a step that crosses no multiple
\* of the interval, and the check made there has fired
C2_Witness ==
    /\ t = tmax /\ t > 0 /\ checked
    /\ \E I \in Intervals :
          /\ ~HasMultiple(I, t - dt, t)
          /\ log[Len(log)].fired[I] = 1

\* intervals that are not positive
BadIntervals == {-2, -1, 0}

\* C14: with an interval <= 0 the check made for a step does not fire, except
\* at t = 0 and t = tmax
C14_NonPositiveIntervalIsNoOp ==
    (t # 0 /\ t # tmax) =>
        \A I \in BadIntervals : \A ph \in Phases :
            output_check_phase(RInt(I), ph) = 0

\* |p1 - p2|
PhaseGap(p1, p2) == IF RLess(p1, p2) THEN RSub(p2, p1) ELSE RSub(p1, p2)

\* the step that led to t is smaller than I*|p1-p2| and than I*(1-|p1-p2|)
SmallStep(I, p1, p2) ==
    /\ RLess(RInt(dt), RMul(RInt(I), PhaseGap(p1, p2)))
    /\ RLess(RInt(dt), RMul(RInt(I), RSub(RInt(1), PhaseGap(p1, p2))))

\* the phases whose scheduler fires on the step that led to t
FiringPhases(I) == {p \in Phases : output_check_phase(RInt(I), p) = 1}

\* no two phases fire on a step smaller than both of their gaps; such a step
\* is smaller than I/2, and the firing phases are computed for those I only
PhasesDoNotCollide ==
    \A I \in Intervals :
        (2 * dt < I) =>
            \A p1, p2 \in FiringPhases(I) : p1 # p2 => ~SmallStep(I, p1, p2)

\* a step has been taken to a time other than 0 and tmax, and its check is due
InnerStep == ~checked /\ t # 0 /\ t # tmax

\* C18 (amended): two schedulers with the same interval I > 0 and phases
\* p1 # p2 of [0,1) never both fire on a step smaller than I*|p1-p2| and
\* I*(1-|p1-p2|), except on the steps at t = 0 and t = tmax, where every
\* scheduler fires
C18_PhasesInterleave == [](InnerStep => PhasesDoNotCollide)

\* away from the start and the end, a step of size 2 or more, small for the
\* interval and the two phases, on which one of the schedulers fires and the
\* other does not
C18_Witness ==
    /\ t # 0 /\ t # tmax /\ dt >= 2
    /\ \E I \in Intervals : \E p1, p2 \in Phases :
          /\ p1 # p2 /\ SmallStep(I, p1, p2)
          /\ output_check_phase(RInt(I), p1) = 1
          /\ output_check_phase(RInt(I), p2) = 0

\* C18 as stated: on no step of the run do both schedulers fire
C18_NeverBothFire == PhasesDoNotCollide

\* ------------------------------------------------------------------------
\* output.c: output_append_velocity_dispersion
\* ------------------------------------------------------------------------
\* struct particle: position, velocity and radius (integers of the unit)
Pool ==
    { [x |-> 0,  y |-> 0, z |-> 0, vx |-> 1,  vy |-> 0,  vz |-> 0,  r |-> 1],
      [x |-> -1, y |-> 2, z |-> 1, vx |-> -1, vy |-> 0,  vz |-> 0,  r |-> 2],
      [x |-> 2,  y |-> 1, z |-> 0, vx |-> 0,  vy |-> -3, vz |-> 1,  r |-> 0] }

SeqsUpTo(n) == UNION {[1..k -> Pool] : k \in 0..n}

Workers == 0..(mpi_num - 1)

\* the global N of worker w
N(w) == Len(particles[w])

\* mutant: the Q update uses the new mean in both factors
dispersion_fold_newmean(a, q, p, idx) ==
    LET n == RInt(idx + 1)
        vx == RInt(p.vx)
        vy == IF SEI THEN RAdd(RInt(p.vy), RMul(RMul(Frac(3, 2), OMEGA), RInt(p.x)))
              ELSE RInt(p.vy)
        vz == RInt(p.vz)
        Ax == RAdd(a.x, RDiv(RSub(vx, a.x), n))
        Ay == RAdd(a.y, RDiv(RSub(vy, a.y), n))
        Az == RAdd(a.z, RDiv(RSub(vz, a.z), n))
    IN  [A |-> [x |-> Ax, y |-> Ay, z |-> Az],
         Q |-> [x |-> RAdd(q.x, RMul(RSub(vx, Ax), RSub(vx, Ax))),
                y |-> RAdd(q.y, RMul(RSub(vy, Ay), RSub(vy, Ay))),
                z |-> RAdd(q.z, RMul(RSub(vz, Az), RSub(vz, Az)))]]

\* mutant: the Q update uses the old mean in both factors
dispersion_fold_oldmean(a, q, p, idx) ==
    LET n == RInt(idx + 1)
        vx == RInt(p.vx)
        vy == IF SEI THEN RAdd(RInt(p.vy), RMul(RMul(Frac(3, 2), OMEGA), RInt(p.x)))
              ELSE RInt(p.vy)
        vz == RInt(p.vz)
    IN  [A |-> [x |-> RAdd(a.x, RDiv(RSub(vx, a.x), n)),
                y |-> RAdd(a.y, RDiv(RSub(vy, a.y), n)),
                z |-> RAdd(a.z, RDiv(RSub(vz, a.z), n))],
         Q |-> [x |-> RAdd(q.x, RMul(RSub(vx, a.x), RSub(vx, a.x))),
                y |-> RAdd(q.y, RMul(RSub(vy, a.y), RSub(vy, a.y))),
                z |-> RAdd(q.z, RMul(RSub(vz, a.z), RSub(vz, a.z)))]]

\* mutant: the shear term is taken from vy with the opposite sign
dispersion_fold_minus(a, q, p, idx) ==
    LET n == RInt(idx + 1)
        vx == RInt(p.vx)
        vy == IF SEI THEN RSub(RInt(p.vy), RMul(RMul(Frac(3, 2), OMEGA), RInt(p.x)))
              ELSE RInt(p.vy)
        vz == RInt(p.vz)
        Ax == RAdd(a.x, RDiv(RSub(vx, a.x), n))
        Ay == RAdd(a.y, RDiv(RSub(vy, a.y), n))
        Az == RAdd(a.z, RDiv(RSub(vz, a.z), n))
    IN  [A |-> [x |-> Ax, y |-> Ay, z |-> Az],
         Q |-> [x |-> RAdd(q.x, RMul(RSub(vx, a.x), RSub(vx, Ax))),
                y |-> RAdd(q.y, RMul(RSub(vy, a.y), RSub(vy, Ay))),
                z |-> RAdd(q.z, RMul(RSub(vz, a.z), RSub(vz, Az)))]]

\* the body of the loop over the particles, for particle p at index idx:
\* the new running mean a and running sum of squared deviations q
dispersion_fold(a, q, p, idx) ==
    LET Aim1 == a
        n == RInt(idx + 1)
        vx == RInt(p.vx)
        vy == RInt(p.vy)
        vz == RInt(p.vz)
        shear == RMul(RMul(Frac(3, 2), OMEGA), RInt(p.x))
        Ax == RAdd(a.x, RDiv(RSub(vx, a.x), n))
        Ay == IF SEI
              THEN RAdd(a.y, RDiv(RSub(RAdd(vy, shear), a.y), n))
              ELSE RAdd(a.y, RDiv(RSub(vy, a.y), n))
        Az == RAdd(a.z, RDiv(RSub(vz, a.z), n))
        Qx == RAdd(q.x, RMul(RSub(vx, Aim1.x), RSub(vx, Ax)))
        Qy == IF SEI
              THEN RAdd(q.y, RMul(RSub(RAdd(vy, shear), Aim1.y),
                                  RSub(RAdd(vy, shear), Ay)))
              ELSE RAdd(q.y, RMul(RSub(vy, Aim1.y), RSub(vy, Ay)))
        Qz == RAdd(q.z, RMul(RSub(vz, Aim1.z), RSub(vz, Az)))
    IN  [A |-> [x |-> Ax, y |-> Ay, z |-> Az],
         Q |-> [x |-> Qx, y |-> Qy, z |-> Qz]]

\* the statement that follows the loop
AfterLoop == IF MPI THEN "reduceN" ELSE "emit"

\* entry of output_append_velocity_dispersion in worker w
dispersion_call(w) ==
    /\ pc[w] = "idle"
    /\ i' = [i EXCEPT ![w] = 0]
    /\ A' = [A EXCEPT ![w] = Vec0]
    /\ Q' = [Q EXCEPT ![w] = Vec0]
    /\ pc' = [pc EXCEPT ![w] = IF 0 < N(w) THEN "fold" ELSE AfterLoop]
    /\ UNCHANGED <<MPI, mpi_num, SEI, OMEGA, particles, N_tot, A_tot, Q_tot, dispfile>>
    /\ UNCHANGED <<schedVars, dispVars, binVars, meshVars>>

\* one iteration of for (int i=0;i<N;i++)
dispersion_loop(w) ==
    /\ pc[w] = "fold"
    /\ LET r == dispersion_fold(A[w], Q[w], particles[w][i[w] + 1], i[w])
       IN  /\ A' = [A EXCEPT ![w] = r.A]
           /\ Q' = [Q EXCEPT ![w] = r.Q]
    /\ i' = [i EXCEPT ![w] = i[w] + 1]
    /\ pc' = [pc EXCEPT ![w] = IF i[w] + 1 < N(w) THEN "fold" ELSE AfterLoop]
    /\ UNCHANGED <<MPI, mpi_num, SEI, OMEGA, particles, N_tot, A_tot, Q_tot, dispfile>>
    /\ UNCHANGED <<schedVars, dispVars, binVars, meshVars>>

\* position of a worker relative to the three collective reductions
Stage(l) ==
    CASE l = "idle" -> 0 [] l = "fold" -> 0
      [] l = "reduceN" -> 1 [] l = "reduceA" -> 2 [] l = "reduceQ" -> 3
      [] l = "emit" -> 4 [] l = "returned" -> 4 [] l = "crashed" -> 4

RECURSIVE SumN(_)
SumN(k) == IF k < 0 THEN 0 ELSE N(k) + SumN(k - 1)

RECURSIVE SumVec(_, _)
SumVec(f, k) == IF k < 0 THEN Vec0 ELSE VecAdd(f[k], SumVec(f, k - 1))

\* MPI_Reduce(.., MPI_SUM, 0, MPI_COMM_WORLD) in worker w: the other ranks
\* hand in their operand and go on; rank 0 completes once every rank has
\* handed in its operand and receives the sum
mpi_reduce(w) ==
    /\ pc[w] \in {"reduceN", "reduceA", "reduceQ"}
    /\ w = 0 => \A v \in Workers \ {0} : Stage(pc[v]) > Stage(pc[w])
    /\ N_tot' = IF w = 0 /\ pc[w] = "reduceN" THEN SumN(mpi_num - 1) ELSE N_tot
    /\ A_tot' = IF w = 0 /\ pc[w] = "reduceA" THEN SumVec(A, mpi_num - 1) ELSE A_tot
    /\ Q_tot' = IF w = 0 /\ pc[w] = "reduceQ" THEN SumVec(Q, mpi_num - 1) ELSE Q_tot
    /\ pc' = [pc EXCEPT ![w] =
                 CASE pc[w] = "reduceN" -> "reduceA"
                   [] pc[w] = "reduceA" -> "reduceQ"
                   [] pc[w] = "reduceQ" -> IF w # 0 THEN "returned" ELSE "emit"]
    /\ UNCHANGED <<MPI, mpi_num, SEI, OMEGA, particles, i, A, Q, dispfile>>
    /\ UNCHANGED <<schedVars, dispVars, binVars, meshVars>>

\* what fopen(filename,"a") can return
FopenResults == {"FILE", "NULL"}

\* fprintf(of, ...) and fclose(of) with of == NULL are undefined: the process
\* is killed, or the calls fail and return
NullFileOutcomes == {"crashed", "returned"}

\* the totals, the square roots and the appended record; of is the result of
\* fopen, which the code does not test
dispersion_emit(w) ==
    /\ pc[w] = "emit"
    /\ LET nt == IF MPI THEN N_tot ELSE N(w)
           at == IF MPI THEN A_tot ELSE A[w]
           qt == IF MPI THEN Q_tot ELSE Q[w]
           d  == [x |-> RSqrt(RDiv(qt.x, RInt(nt))),
                  y |-> RSqrt(RDiv(qt.y, RInt(nt))),
                  z |-> RSqrt(RDiv(qt.z, RInt(nt)))]
       IN  /\ N_tot' = nt
           /\ A_tot' = at
           /\ Q_tot' = d
           /\ \E of \in FopenResults :
                 IF of = "FILE"
                 THEN /\ dispfile' = Append(dispfile,
                                            [t |-> t, mean |-> at, disp |-> d])
                      /\ pc' = [pc EXCEPT ![w] = "returned"]
                 ELSE /\ dispfile' = dispfile
                      /\ \E outcome \in NullFileOutcomes :
                            pc' = [pc EXCEPT ![w] = outcome]
    /\ UNCHANGED <<MPI, mpi_num, SEI, OMEGA, particles, i, A, Q>>
    /\ UNCHANGED <<schedVars, dispVars, binVars, meshVars>>

RECURSIVE TotalLen(_, _)
TotalLen(f, k) == IF k < 0 THEN 0 ELSE Len(f[k]) + TotalLen(f, k - 1)

InitStat ==
    /\ DispIdle
    /\ BinsIdle
    /\ MeshIdle
    /\ t = 0 /\ dt = 1 /\ tmax = 0 /\ checked = FALSE /\ log = <<>>
    /\ MPI \in BOOLEAN
    /\ mpi_num \in (IF MPI THEN 1..MaxW ELSE {1})
    /\ SEI \in BOOLEAN
    /\ OMEGA = (IF SEI THEN RInt(1) ELSE RInt(0))
    /\ particles \in {f \in [0..(mpi_num - 1) -> SeqsUpTo(MaxN)] :
                         TotalLen(f, mpi_num - 1) <= MaxN}
    /\ pc = [w \in 0..(mpi_num - 1) |-> "idle"]
    /\ i = [w \in 0..(mpi_num - 1) |-> 0]
    /\ A = [w \in 0..(mpi_num - 1) |-> Vec0]
    /\ Q = [w \in 0..(mpi_num - 1) |-> Vec0]
    /\ N_tot = 0 /\ A_tot = Vec0 /\ Q_tot = Vec0
    /\ dispfile = <<>>

NextStat ==
    \E w \in Workers :
        \/ dispersion_call(w)
        \/ dispersion_loop(w)
        \/ mpi_reduce(w)
        \/ dispersion_emit(w)

SpecStat == InitStat /\ [][NextStat]_vars

\* ------------------------------------------------------------------------
\* Properties of the velocity dispersion
\* ------------------------------------------------------------------------
\* the velocity sample the loop folds for particle p
FoldedSample(p) ==
    [x |-> RInt(p.vx),
     y |-> IF SEI THEN RAdd(RInt(p.vy), RMul(RMul(Frac(3, 2), OMEGA), RInt(p.x)))
           ELSE RInt(p.vy),
     z |-> RInt(p.vz)]

Axes == {"x", "y", "z"}

RECURSIVE SumOf(_, _, _)
SumOf(ps, ax, k) ==
    IF k = 0 THEN RInt(0) ELSE RAdd(SumOf(ps, ax, k - 1), FoldedSample(ps[k])[ax])

\* arithmetic mean of the samples of the first k particles of ps
MeanOf(ps, ax, k) == RDiv(SumOf(ps, ax, k), RInt(k))

RECURSIVE SumSqDev(_, _, _, _)
SumSqDev(ps, ax, k, m) ==
    IF k = 0 THEN RInt(0)
    ELSE LET d == RSub(FoldedSample(ps[k])[ax], m)
         IN  RAdd(SumSqDev(ps, ax, k - 1, m), RMul(d, d))

\* population variance of the samples of the first k particles of ps
VarOf(ps, ax, k) == RDiv(SumSqDev(ps, ax, k, MeanOf(ps, ax, k)), RInt(k))

\* s is the square root of the rational q >= 0
IsSqrtOf(s, q) == IsFinite(q) /\ q[1] >= 0 /\ s.sqrt = RMul(q, q)

\* C3: with a single worker, after k >= 1 iterations of the loop A is the
\* arithmetic mean and Q/k the population variance of the k samples folded,
\* on every axis; the record appended for N >= 1 particles holds the mean
\* and the square root of the variance of all N samples.
C3_WelfordMeanAndVariance ==
    (mpi_num = 1) =>
        /\ (pc[0] # "idle" /\ i[0] >= 1) =>
              \A ax \in Axes :
                  /\ A[0][ax] = MeanOf(particles[0], ax, i[0])
                  /\ RDiv(Q[0][ax], RInt(i[0])) = VarOf(particles[0], ax, i[0])
        /\ (dispfile # <<>> /\ N(0) >= 1) =>
              \A ax \in Axes :
                  /\ dispfile[1].mean[ax] = MeanOf(particles[0], ax, N(0))
                  /\ dispfile[1].disp[ax] = RSqrt(VarOf(particles[0], ax, N(0)))

\* two particles with velocities (1,0,0) and (-1,0,0) have been written
\* with mean (0,0,0) and dispersion (1,0,0)
C3_Witness ==
    /\ mpi_num = 1 /\ N(0) = 2 /\ dispfile # <<>>
    /\ <<particles[0][1].vx, particles[0][1].vy, particles[0][1].vz>> = <<1, 0, 0>>
    /\ <<particles[0][2].vx, particles[0][2].vy, particles[0][2].vz>> = <<-1, 0, 0>>
    /\ dispfile[1].mean = Vec0
    /\ IsSqrtOf(dispfile[1].disp.x, RInt(1))
    /\ IsSqrtOf(dispfile[1].disp.y, RInt(0))
    /\ IsSqrtOf(dispfile[1].disp.z, RInt(0))

\* an accumulator: count n, mean A and sum of squared deviations Q
Acc(w) == [n |-> N(w), A |-> A[w], Q |-> Q[w]]

AccEmpty == [n |-> 0, A |-> Vec0, Q |-> Vec0]

\* mutant: the merged mean is the plain average of the two means
Merge_unweighted(a, b) ==
    LET n == a.n + b.n
        mA(ax) == RDiv(RAdd(a.A[ax], b.A[ax]), RInt(2))
        mQ(ax) == RAdd(RAdd(a.Q[ax], b.Q[ax]),
                       RDiv(RMul(RMul(RSub(a.A[ax], b.A[ax]), RSub(a.A[ax], b.A[ax])),
                                 RInt(a.n * b.n)),
                            RInt(n)))
    IN  IF n = 0 THEN [n |-> 0, A |-> Vec0, Q |-> Vec0]
        ELSE [n |-> n,
              A |-> [x |-> mA("x"), y |-> mA("y"), z |-> mA("z")],
              Q |-> [x |-> mQ("x"), y |-> mQ("y"), z |-> mQ("z")]]

\* the parallel-variance merge of two accumulators (spec 4.2); the merge of
\* two empty accumulators is the empty accumulator (spec 7)
Merge(a, b) ==
    LET n == a.n + b.n
        mA(ax) == RDiv(RAdd(RMul(RInt(a.n), a.A[ax]), RMul(RInt(b.n), b.A[ax])),
                       RInt(n))
        mQ(ax) == RAdd(RAdd(a.Q[ax], b.Q[ax]),
                       RDiv(RMul(RMul(RSub(a.A[ax], b.A[ax]), RSub(a.A[ax], b.A[ax])),
                                 RInt(a.n * b.n)),
                            RInt(n)))
    IN  IF n = 0 THEN AccEmpty
        ELSE [n |-> n,
              A |-> [x |-> mA("x"), y |-> mA("y"), z |-> mA("z")],
              Q |-> [x |-> mQ("x"), y |-> mQ("y"), z |-> mQ("z")]]

\* the partial accumulators of workers 0..k merged from left to right
RECURSIVE MergeAll(_)
MergeAll(k) == IF k = 0 THEN Acc(0) ELSE Merge(MergeAll(k - 1), Acc(k))

\* the loop of output_append_velocity_dispersion run over a whole sequence
RECURSIVE FoldSeq(_, _)
FoldSeq(ps, k) ==
    IF k = 0 THEN [A |-> Vec0, Q |-> Vec0]
    ELSE LET r == FoldSeq(ps, k - 1)
         IN  dispersion_fold(r.A, r.Q, ps[k], k - 1)

\* C4: with two or more workers the appended record holds the mean and the
\* dispersion of the merge of the workers' partial accumulators.
C4_DistributedRecordIsMerged ==
    (MPI /\ mpi_num >= 2 /\ dispfile # <<>>) =>
        LET m == MergeAll(mpi_num - 1)
        IN  \A ax \in Axes :
                /\ dispfile[1].mean[ax] = m.A[ax]
                /\ dispfile[1].disp[ax] = RSqrt(RDiv(m.Q[ax], RInt(m.n)))

FoldAcc(ps) ==
    [n |-> Len(ps), A |-> FoldSeq(ps, Len(ps)).A, Q |-> FoldSeq(ps, Len(ps)).Q]

\* third accumulators: the fold of a single particle, and of the particles of
\* the two workers in the opposite order
ThirdAccs == {FoldAcc(<<p>>) : p \in Pool} \cup {FoldAcc(particles[1] \o particles[0])}

\* both workers have just completed the loop over a non-empty particle array
BothFolded ==
    /\ mpi_num = 2 /\ pc[0] = "reduceN" /\ pc[1] = "reduceN"
    /\ N(0) >= 1 /\ N(1) >= 1

MergeCommutes(a, b) == Merge(a, b) = Merge(b, a)

MergeAssociates(a, b, c) == Merge(Merge(a, b), c) = Merge(a, Merge(b, c))

\* C20: the merge is commutative and associative in its result for
\* accumulators built by folding non-empty sample sets (in exact arithmetic)
C20_MergeCommutesAndAssociates ==
    BothFolded =>
        /\ MergeCommutes(Acc(0), Acc(1))
        /\ \A c \in ThirdAccs :
              /\ MergeCommutes(Acc(0), c)
              /\ MergeAssociates(Acc(0), Acc(1), c)
              /\ MergeAssociates(c, Acc(1), Acc(0))

\* two accumulators of different counts and different means, whose merge has
\* a cross term in Q and a mean other than the average of the two means
C20_Witness ==
    /\ BothFolded
    /\ N(0) = 2 /\ N(1) = 1
    /\ \E ax \in Axes :
          /\ Merge(Acc(0), Acc(1)).Q[ax] # RAdd(Q[0][ax], Q[1][ax])
          /\ Merge(Acc(0), Acc(1)).A[ax] # RDiv(RAdd(A[0][ax], A[1][ax]), RInt(2))

\* the seven numbers of a record are defined (none is NaN)
DefinedRecord(rec) ==
    /\ \A ax \in Axes : ~IsNaN(rec.mean[ax])
    /\ \A ax \in Axes : ~IsNaN(rec.disp[ax].sqrt)

\* C15: with a total particle count of zero, what output_append_velocity_dispersion
\* appends is defined: no 0/0 in the mean or the dispersion
C15_ZeroCountIsDefined ==
    (dispfile # <<>> /\ N_tot = 0) => DefinedRecord(dispfile[1])

\* C16: when the file cannot be opened the write is dropped and
\* output_append_velocity_dispersion returns: the process is never killed
C16_FailedOpenIsDropped ==
    \A w \in Workers : pc[w] # "crashed"

\* worker w has left output_append_velocity_dispersion
Left(w) == pc[w] \in {"returned", "crashed"}

\* the three totals of rank 0 are the sums over the partial results of all
\* the workers, each folded to its end
Combined ==
    /\ \A w \in Workers : i[w] = N(w) /\ Stage(pc[w]) >= 3
    /\ N_tot = SumN(mpi_num - 1)
    /\ A_tot = SumVec(A, mpi_num - 1)
    /\ Q_tot = SumVec(Q, mpi_num - 1)

\* a worker is in the reductions only with its local fold complete, and the
\* ranks other than 0 never reach the statements that write the record
FoldsThenReduces ==
    \A w \in Workers :
        /\ Stage(pc[w]) >= 1 => i[w] = N(w)
        /\ (w # 0 /\ MPI) => pc[w] \notin {"emit", "crashed"}

\* C26: in the distributed configuration every worker folds its subset and
\* then goes through the same three reductions; rank 0 alone appends, only
\* once the partial results of all the workers are combined, and when every
\* worker has left the function the file holds exactly one record
C26_OneRecordPerTrigger ==
    MPI =>
        /\ FoldsThenReduces
        /\ pc[0] = "emit" => Combined
        /\ Len(dispfile) <= 1
        /\ (\A w \in Workers : Left(w)) => Len(dispfile) = 1

\* the background velocity of the sheet at the position of p: problem_init
\* of the shearing sheet gives every particle vy = -1.5*x*OMEGA
BackgroundShear(p) == RMul(RMul(Frac(-3, 2), RInt(p.x)), OMEGA)

\* vy of p with the background velocity of the sheet subtracted
RandomSample(p) ==
    [x |-> RInt(p.vx),
     y |-> IF SEI THEN RSub(RInt(p.vy), BackgroundShear(p)) ELSE RInt(p.vy),
     z |-> RInt(p.vz)]

\* vy - 1.5*OMEGA*x
MinusShearSample(p) ==
    [x |-> RInt(p.vx),
     y |-> IF SEI THEN RSub(RInt(p.vy), RMul(RMul(Frac(3, 2), OMEGA), RInt(p.x)))
           ELSE RInt(p.vy),
     z |-> RInt(p.vz)]

\* worker w runs one iteration of the loop in this step
FoldStep(w) == pc[w] = "fold" /\ i'[w] = i[w] + 1

\* the step of worker w is the fold of sample s: the mean moves by
\* (s - A)/n and Q grows by (s - A)*(s - A')
FoldsSample(w, s) ==
    \A ax \in Axes :
        LET d == RSub(s[ax], A[w][ax])
        IN  /\ RMul(RInt(i[w] + 1), RSub(A'[w][ax], A[w][ax])) = d
            /\ RSub(Q'[w][ax], Q[w][ax]) = RMul(d, RSub(s[ax], A'[w][ax]))

FoldsRandomSample ==
    \A w \in Workers :
        FoldStep(w) => FoldsSample(w, RandomSample(particles[w][i[w] + 1]))

FoldsMinusShearSample ==
    \A w \in Workers :
        FoldStep(w) => FoldsSample(w, MinusShearSample(particles[w][i[w] + 1]))

\* C17 (amended): in the shearing sheet the y sample folded for a particle,
\* in the mean update and in the Q update, is its vy with the background
\* velocity -1.5*OMEGA*x of the sheet subtracted, vy + 1.5*OMEGA*x, x and vy
\* of the same particle; the x and z samples are vx and vz
C17_FoldsVyMinusBackground == [][FoldsRandomSample]_vars

\* a worker of the shearing sheet has folded, as its first sample, a particle
\* away from x = 0
C17_Witness ==
    \E w \in Workers :
        /\ SEI /\ i[w] = 1
        /\ particles[w][1].x # 0
        /\ A[w] = RandomSample(particles[w][1])

\* C17 as stated: the y sample folded is vy - 1.5*OMEGA*x
C17_FoldsVyMinusShearTerm == [][FoldsMinusShearSample]_vars

\* ------------------------------------------------------------------------
\* display.c: OpenGL model transform
\* ------------------------------------------------------------------------
\* glTranslatef(v): the current transform is composed with a translation
glTranslatef(mv, v) ==
    [mv EXCEPT !.T = <<RAdd(mv.T[1], RMul(mv.s[1], v[1])),
                       RAdd(mv.T[2], RMul(mv.s[2], v[2])),
                       RAdd(mv.T[3], RMul(mv.s[3], v[3]))>>]

\* glScalef(a): the current transform is composed with a scaling
glScalef(mv, a) ==
    [mv EXCEPT !.s = <<RMul(mv.s[1], a[1]), RMul(mv.s[2], a[2]), RMul(mv.s[3], a[3])>>]

VNeg(v) == <<RNeg(v[1]), RNeg(v[2]), RNeg(v[3])>>

\* boundaries.h: the shift of ghost box (gi, gj, gk): linear in the box size
\* on periodic axes; in the shearing sheet the y shift also moves with time
boundaries_get_ghostbox(gi, gj, gk) ==
    [shift |-> <<RInt(boxsize_x * gi),
                 IF SEI
                 THEN RSub(RInt(boxsize_y * gj),
                           RMul(RMul(Frac(3, 2), OMEGA), RInt(gi * boxsize_x * t)))
                 ELSE RInt(boxsize_y * gj),
                 RInt(boxsize_z * gk)>>]

\* ------------------------------------------------------------------------
\* display.c: the texture cache
\* ------------------------------------------------------------------------
TextureNames == {"a", "b"}

\* display_find_texture_path: the path buffer is allocated on first use and
\* set to the first directory in which test.raw is readable
display_find_texture_path(tx) ==
    LET fresh == tx.path = "NULL"
        buf == IF fresh THEN "" ELSE tx.path
    IN  [tx EXCEPT !.path = IF test_raw THEN "./" ELSE buf,
                   !.allocs = IF fresh THEN tx.allocs + 1 ELSE tx.allocs]

\* display_load_texture(name): 0 if the file cannot be opened, otherwise a
\* freshly generated texture; tx.ret is the value returned
display_load_texture(tx, name) ==
    IF name \in texture_files
    THEN [tx EXCEPT !.loads = Append(tx.loads, name),
                    !.allocs = tx.allocs + 1,
                    !.gl_textures = tx.gl_textures + 1,
                    !.ret = tx.gl_textures + 1]
    ELSE [tx EXCEPT !.loads = Append(tx.loads, name), !.ret = 0]

SetMax(S) == CHOOSE m \in S : \A k \in S : k <= m

\* the loop of display_init_fancy without the search for an equal name
RECURSIVE init_fancy_loop_noshare(_, _, _)
init_fancy_loop_noshare(tx, names, idx) ==
    IF idx < N(0)
    THEN LET ld == display_load_texture(tx, names[idx + 1])
         IN  init_fancy_loop_noshare([ld EXCEPT !.ids[idx + 1] = ld.ret],
                                     names, idx + 1)
    ELSE tx

\* the loop for (int i=0;i<N;i++) of display_init_fancy, from index idx on
RECURSIVE init_fancy_loop(_, _, _)
init_fancy_loop(tx, names, idx) ==
    IF idx < N(0)
    THEN LET same == {j \in 0..(idx - 1) : names[j + 1] = names[idx + 1]}
         IN  IF same # {}
             THEN init_fancy_loop(
                      [tx EXCEPT !.ids[idx + 1] = tx.ids[SetMax(same) + 1]],
                      names, idx + 1)
             ELSE LET ld == display_load_texture(tx, names[idx + 1])
                  IN  init_fancy_loop([ld EXCEPT !.ids[idx + 1] = ld.ret],
                                      names, idx + 1)
    ELSE tx

\* the texture state as one record
TextureState ==
    [done |-> display_init_fancy_done,
     null |-> display_texture_id.null,
     ids |-> display_texture_id.ids,
     path |-> display_texture_path,
     gl_textures |-> gl_textures,
     loads |-> loads,
     allocs |-> allocs,
     ret |-> 0]

\* mutant: a failed resolution leaves display_init_fancy_done at 0
init_fancy_found_retry(tx) ==
    IF tx.path = ""
    THEN [tx EXCEPT !.done = 0]
    ELSE IF display_texture_name.null
    THEN [tx EXCEPT !.done = 0]
    ELSE [tx EXCEPT !.done = 1, !.null = FALSE, !.ids = [n \in 1..N(0) |-> 0]]

\* display_init_fancy
\* display_init_fancy after display_find_texture_path, which has left tx
init_fancy_found(tx) ==
    IF tx.path = ""
    THEN [tx EXCEPT !.done = -1]
    ELSE IF display_texture_name.null
    THEN [tx EXCEPT !.done = -2]
    ELSE [init_fancy_loop(IF tx.null
                          THEN [tx EXCEPT !.null = FALSE,
                                          !.ids = [n \in 1..N(0) |-> 0],
                                          !.allocs = tx.allocs + 1]
                          ELSE tx,
                          display_texture_name.names, 0)
            EXCEPT !.done = 1]

display_init_fancy(tx0) == init_fancy_found(display_find_texture_path(tx0))

\* ------------------------------------------------------------------------
\* display.c: display()
\* ------------------------------------------------------------------------
\* the toggles of display.c as one record; display() is called by displayKey
\* after the key has changed them, and reads the changed values
Toggles ==
    [display_mode |-> display_mode,
     display_pause_sim |-> display_pause_sim,
     display_pause |-> display_pause,
     display_tree |-> display_tree,
     display_mass |-> display_mass,
     display_wire |-> display_wire,
     display_clear |-> display_clear,
     display_ghostboxes |-> display_ghostboxes,
     display_sphere_scale |-> display_sphere_scale,
     glutIdle |-> glutIdle]

\* the scale of the sphere drawn for particle p
sphere_scale(g, p) ==
    IF COLLISIONS_NONE
    THEN RMul(RDiv(RInt(boxsize), RInt(100)), g.display_sphere_scale)
    ELSE RMul(RInt(p.r), g.display_sphere_scale)

\* glTranslatef(p); glScalef(scale); glCallList; glScalef(1./scale);
\* glTranslatef(-p)
draw_scaled(mv, p, scale) ==
    glTranslatef(
        glScalef(
            glScalef(glTranslatef(mv, V3(p.x, p.y, p.z)), Uniform(scale)),
            Uniform(RDiv(RInt(1), scale))),
        V3(-p.x, -p.y, -p.z))

\* one iteration of the loop over the particles in modes 1 and 2:
\* translate, scale, draw, scale back, translate back
draw_sphere(g, mv, p) == draw_scaled(mv, p, sphere_scale(g, p))

\* case 1: for (int i=0;i<N;i++); st.i is the loop variable and st.at collects
\* the transform in force at the start of each iteration
RECURSIVE spheres_loop(_, _)
spheres_loop(g, st) ==
    IF st.i < N(0)
    THEN spheres_loop(g,
                      [st EXCEPT !.mv = draw_sphere(g, st.mv, particles[0][st.i + 1]),
                                 !.at = Append(st.at, st.mv),
                                 !.i = st.i + 1])
    ELSE st

\* case 2: the same loop with glBindTexture(display_texture_id[i]); a read
\* beyond the handle table ids yields the arbitrary value garbage
RECURSIVE textured_loop(_, _, _, _)
textured_loop(g, ids, st, garbage) ==
    IF st.i < N(0)
    THEN LET id == IF st.i < Len(ids) THEN ids[st.i + 1] ELSE garbage
         IN  textured_loop(g, ids,
                 [st EXCEPT !.mv = draw_sphere(g, st.mv, particles[0][st.i + 1]),
                            !.at = Append(st.at, st.mv),
                            !.bound = Append(st.bound, id),
                            !.reads = Append(st.reads, st.i),
                            !.i = st.i + 1],
                 garbage)
    ELSE st

\* display_cell(node) without its recursion: the centre of mass is drawn
\* scaled under GRAVITY_TREE, then the wire cube of the cell
display_cell(mv, node) ==
    glTranslatef(
        glTranslatef(
            IF GRAVITY_TREE
            THEN glTranslatef(
                     glScalef(
                         glScalef(glTranslatef(mv, V3(node.mx, node.my, node.mz)),
                                  Uniform(RMul(Frac(4, 100), RInt(node.w)))),
                         Uniform(RDiv(RInt(25), RInt(node.w)))),
                     V3(-node.mx, -node.my, -node.mz))
            ELSE mv,
            V3(node.x, node.y, node.z)),
        V3(-node.x, -node.y, -node.z))

\* display_entire_tree: display_cell for the cells of the tree from position
\* idx on; the recursion over the daughters visits the cells in pre-order
RECURSIVE display_cells(_, _)
display_cells(mv, idx) ==
    IF idx <= Len(tree_root)
    THEN display_cells(display_cell(mv, tree_root[idx]), idx + 1)
    ELSE mv

\* if (!(!display_clear&&display_wire))
particlesDrawn(g) == ~(g.display_clear = 0 /\ g.display_wire # 0)

\* the switch on display_mode inside a tile; none is the state of the drawing
\* loops before their first iteration
tile_particles(g, tx, none, garbage) ==
    IF ~particlesDrawn(g) THEN none
    ELSE IF g.display_mode = 1 THEN spheres_loop(g, none)
    ELSE IF g.display_mode = 2 /\ tx.done > 0
         THEN textured_loop(g, tx.ids, none, garbage)
    ELSE none

\* the end of a tile: st is the state before the tile, gb its ghost box, dr
\* the state after the particles, m2 the transform after the shift back
tile_end(g, st, gb, dr, m2) ==
    [st EXCEPT
       !.mv = m2,
       !.tiles = Append(st.tiles,
                 [idx |-> <<st.i, st.j, st.k>>, shift |-> gb.shift,
                  mvIn |-> st.mv, mvOut |-> m2,
                  points |-> IF particlesDrawn(g) /\ g.display_mode = 0
                             THEN <<[first |-> IF N_active = -1 THEN N(0)
                                               ELSE N_active,
                                     count |-> N(0) - (IF N_active = -1 THEN N(0)
                                                       ELSE N_active)],
                                    [first |-> 0,
                                     count |-> IF N_active = -1 THEN N(0)
                                               ELSE N_active]>>
                             ELSE <<>>,
                  spheres |-> IF particlesDrawn(g) /\ g.display_mode = 1
                              THEN dr.at ELSE <<>>,
                  textured |-> IF particlesDrawn(g) /\ g.display_mode = 2
                               THEN dr.at ELSE <<>>,
                  bound |-> dr.bound, reads |-> dr.reads,
                  \* the transform left by the loop over the particles
                  mvDrawn |-> dr.mv,
                  \* the orbit wires are drawn between glPushMatrix and
                  \* glPopMatrix
                  wires |-> IF g.display_wire # 0
                            THEN [n \in 1..(N(0) - 1) |-> n] ELSE <<>>,
                  tree |-> TREE /\ g.display_tree # 0])]

\* the tree and the shift back, after the particles of the tile
tile_tree(g, st, gb, dr) ==
    tile_end(g, st, gb, dr,
             glTranslatef(IF TREE /\ g.display_tree # 0
                          THEN display_cells(dr.mv, 1) ELSE dr.mv,
                          VNeg(gb.shift)))

\* the tile of ghost box gb: shift, particles, tree, shift back
tile_shift(g, tx, st, gb, garbage) ==
    tile_tree(g, st, gb,
              tile_particles(g, tx,
                             [mv |-> glTranslatef(st.mv, gb.shift), at |-> <<>>,
                              bound |-> <<>>, reads |-> <<>>, i |-> 0],
                             garbage))

\* the body of the three loops over the ghost boxes, for the box
\* (st.i, st.j, st.k); tx is the texture state after the switch on display_mode
display_tile(g, tx, st, garbage) ==
    tile_shift(g, tx, st, boundaries_get_ghostbox(st.i, st.j, st.k), garbage)

\* the loop over k with the toggle display_ghostboxes left out of its bound
RECURSIVE loop_k_always(_, _, _, _)
loop_k_always(g, tx, st, garbage) ==
    IF st.k <= nghost[3]
    THEN loop_k_always(g, tx,
                       [display_tile(g, tx, st, garbage) EXCEPT !.k = st.k + 1],
                       garbage)
    ELSE st

\* for (int k=-display_ghostboxes*nghostz;k<=display_ghostboxes*nghostz;k++),
\* from k = st.k on
RECURSIVE loop_k(_, _, _, _)
loop_k(g, tx, st, garbage) ==
    IF st.k <= g.display_ghostboxes * nghost[3]
    THEN loop_k(g, tx,
                [display_tile(g, tx, st, garbage) EXCEPT !.k = st.k + 1],
                garbage)
    ELSE st

\* mutant: the loop over j does not start the loop over k again
RECURSIVE loop_j_nostart(_, _, _, _)
loop_j_nostart(g, tx, st, garbage) ==
    IF st.j <= g.display_ghostboxes * nghost[2]
    THEN loop_j_nostart(g, tx,
                        [loop_k(g, tx, st, garbage) EXCEPT !.j = st.j + 1],
                        garbage)
    ELSE st

\* for (int j=-display_ghostboxes*nghosty;j<=display_ghostboxes*nghosty;j++),
\* from j = st.j on
RECURSIVE loop_j(_, _, _, _)
loop_j(g, tx, st, garbage) ==
    IF st.j <= g.display_ghostboxes * nghost[2]
    THEN loop_j(g, tx,
                [loop_k(g, tx,
                        [st EXCEPT !.k = -g.display_ghostboxes * nghost[3]],
                        garbage)
                   EXCEPT !.j = st.j + 1],
                garbage)
    ELSE st

\* for (int i=-display_ghostboxes*nghostx;i<=display_ghostboxes*nghostx;i++),
\* from i = st.i on
RECURSIVE loop_i(_, _, _, _)
loop_i(g, tx, st, garbage) ==
    IF st.i <= g.display_ghostboxes * nghost[1]
    THEN loop_i(g, tx,
                [loop_j(g, tx,
                        [st EXCEPT !.j = -g.display_ghostboxes * nghost[2]],
                        garbage)
                   EXCEPT !.i = st.i + 1],
                garbage)
    ELSE st

\* the end of display(): the wire cube of the box and the translation back;
\* m0 is the transform after glTranslatef(0,0,-boxsize_max), lp the state
\* after the loops over the ghost boxes, m3 the transform left behind
display_end(g, mv0, tx, tr, m0, lp, m3) ==
    /\ gl_modelview' = m3
    /\ tree_time' = [tree |-> tr.after.tree, gravity |-> tr.after.gravity]
    /\ allocs' = lp.allocs
    /\ frame' = [produced |-> TRUE,
                 cleared |-> g.display_clear # 0,
                 mode |-> g.display_mode,
                 initFancy |-> g.display_mode = 2 /\ display_init_fancy_done = 0,
                 mvStart |-> mv0,
                 mvBase |-> m0,
                 mvEnd |-> lp.mv,
                 mvReturn |-> m3,
                 tiles |-> lp.tiles,
                 allocsBefore |-> allocs,
                 allocsAtTiles |-> tx.allocs,
                 allocsAfter |-> lp.allocs,
                 N |-> N(0),
                 table |-> Len(tx.ids),
                 names |-> display_texture_name,
                 ids |-> tx.ids,
                 loads |-> tx.loads,
                 simBefore |-> tr.before,
                 simAfter |-> tr.after]

\* glScalef(boxsize_x,boxsize_y,boxsize_z); glutWireCube(1);
\* glScalef(1./boxsize_x,1./boxsize_y,1./boxsize_z); glTranslatef(0,0,boxsize_max)
display_box(g, mv0, tx, tr, m0, lp) ==
    display_end(g, mv0, tx, tr, m0, lp,
        glTranslatef(
            glScalef(glScalef(lp.mv, V3(boxsize_x, boxsize_y, boxsize_z)),
                     <<RDiv(RInt(1), RInt(boxsize_x)),
                       RDiv(RInt(1), RInt(boxsize_y)),
                       RDiv(RInt(1), RInt(boxsize_z))>>),
            V3(0, 0, boxsize_max)))

\* the loops over the ghost boxes, from the transform m0
display_tiles(g, mv0, tx, tr, m0, garbage) ==
    display_box(g, mv0, tx, tr, m0,
        loop_i(g, tx,
               [mv |-> m0, tiles |-> <<>>, allocs |-> tx.allocs,
                i |-> -g.display_ghostboxes * nghost[1], j |-> 0, k |-> 0],
               garbage))

\* display() after the switch on display_mode, which has left the texture
\* state tx
display_draw(g, mv0, tx, tr) ==
    /\ display_init_fancy_done' = tx.done
    /\ display_texture_id' = [null |-> tx.null, ids |-> tx.ids]
    /\ display_texture_path' = tx.path
    /\ gl_textures' = tx.gl_textures
    /\ loads' = tx.loads
    /\ UNCHANGED display_texture_name
    /\ \E garbage \in (IF /\ g.display_mode = 2 /\ tx.done > 0
                          /\ particlesDrawn(g)
                          /\ N(0) > Len(tx.ids)
                       THEN {0, 1} ELSE {0}) :
          display_tiles(g, mv0, tx, tr, glTranslatef(mv0, V3(0, 0, -boxsize_max)),
                        garbage)

\* the simulation state a frame is drawn from: the time, the particle array
\* and the times the tree and its gravity data reflect
Sim == [t |-> t, particles |-> particles[0], N |-> N(0),
        tree |-> tree_time.tree, gravity |-> tree_time.gravity]

\* tree.h, tree_update(): the cells of the tree are brought up to date with
\* the particle positions of the present time
tree_update(sm) == [sm EXCEPT !.tree = 2 * sm.t]

\* tree.h, tree_update_gravity_data(): the masses and centres of mass of the
\* cells are computed again from the particles of the present time
tree_update_gravity_data(sm) == [sm EXCEPT !.gravity = 2 * sm.t]

\* if (display_tree){ tree_update(); tree_update_gravity_data(); } under
\* TREE and GRAVITY_TREE: the simulation state before and after
display_tree_update(g, sm) ==
    [before |-> sm,
     after |-> IF TREE /\ g.display_tree # 0
               THEN IF GRAVITY_TREE THEN tree_update_gravity_data(tree_update(sm))
                    ELSE tree_update(sm)
               ELSE sm]

\* mutant: a single pause, rendering stops when the simulation is paused too
display_one_pause(g, mv0, sm) ==
    IF g.display_pause # 0 \/ g.display_pause_sim # 0
    THEN /\ frame' = NoFrame
         /\ gl_modelview' = mv0
         /\ tree_time' = [tree |-> sm.tree, gravity |-> sm.gravity]
         /\ UNCHANGED textureVars
    ELSE display_draw(g, mv0,
                      IF g.display_mode = 2 /\ display_init_fancy_done = 0
                      THEN display_init_fancy(TextureState)
                      ELSE TextureState,
                      display_tree_update(g, sm))

\* display(), called with the toggles g, the model transform mv0 and the
\* simulation state sm: one frame
display(g, mv0, sm) ==
    IF g.display_pause # 0
    THEN /\ frame' = NoFrame
         /\ gl_modelview' = mv0
         /\ tree_time' = [tree |-> sm.tree, gravity |-> sm.gravity]
         /\ UNCHANGED textureVars
    ELSE display_draw(g, mv0,
                      IF g.display_mode = 2 /\ display_init_fancy_done = 0
                      THEN display_init_fancy(TextureState)
                      ELSE TextureState,
                      display_tree_update(g, sm))

\* ------------------------------------------------------------------------
\* display.c: displayKey() and the GLUT callbacks
\* ------------------------------------------------------------------------
Not(b) == IF b = 0 THEN 1 ELSE 0

\* the keys of the switch, the upper-case 'S' (every letter has its upper-case
\* twin in the switch) and 'x', a key without a case
Keys == {"q", " ", "s", "S", "g", "+", "-", "r", "t", "d", "m", "w", "c", "p", "x"}

\* mutant: the mode is not wrapped after TexturedSpheres
key_switch_nowrap(g, key) ==
    CASE key = " " ->
           [g EXCEPT !.display_pause_sim = Not(g.display_pause_sim),
                     !.glutIdle = IF Not(g.display_pause_sim) # 0
                                  THEN "NULL" ELSE "iterate"]
      [] key \in {"s", "S"} -> [g EXCEPT !.display_mode = g.display_mode + 1]
      [] key = "g" -> [g EXCEPT !.display_ghostboxes = Not(g.display_ghostboxes)]
      [] key = "r" -> [g EXCEPT !.display_sphere_scale = RInt(1)]
      [] key = "t" -> [g EXCEPT !.display_mass = 0,
                                !.display_tree = Not(g.display_tree)]
      [] key = "d" -> [g EXCEPT !.display_pause = Not(g.display_pause)]
      [] key = "m" -> [g EXCEPT !.display_mass = Not(g.display_mass)]
      [] key = "w" -> [g EXCEPT !.display_wire = Not(g.display_wire)]
      [] key = "c" -> [g EXCEPT !.display_clear = Not(g.display_clear)]
      [] OTHER -> g

\* the switch of displayKey on the toggles g
key_switch(g, key) ==
    CASE key = " " ->
           [g EXCEPT !.display_pause_sim = Not(g.display_pause_sim),
                     !.glutIdle = IF Not(g.display_pause_sim) # 0
                                  THEN "NULL" ELSE "iterate"]
      [] key \in {"s", "S"} ->
           [g EXCEPT !.display_mode = IF g.display_mode + 1 > 2 THEN 0
                                      ELSE g.display_mode + 1]
      [] key = "g" -> [g EXCEPT !.display_ghostboxes = Not(g.display_ghostboxes)]
      [] key = "+" ->
           [g EXCEPT !.display_sphere_scale = RMul(g.display_sphere_scale, Frac(9, 8))]
      [] key = "-" ->
           [g EXCEPT !.display_sphere_scale = RDiv(g.display_sphere_scale, Frac(9, 8))]
      [] key = "r" -> [g EXCEPT !.display_sphere_scale = RInt(1)]
      [] key = "t" -> [g EXCEPT !.display_mass = 0,
                                !.display_tree = Not(g.display_tree)]
      [] key = "d" -> [g EXCEPT !.display_pause = Not(g.display_pause)]
      [] key = "m" -> [g EXCEPT !.display_mass = Not(g.display_mass)]
      [] key = "w" -> [g EXCEPT !.display_wire = Not(g.display_wire)]
      [] key = "c" -> [g EXCEPT !.display_clear = Not(g.display_clear)]
      [] OTHER -> g

SetToggles(g) ==
    /\ display_mode' = g.display_mode
    /\ display_pause_sim' = g.display_pause_sim
    /\ display_pause' = g.display_pause
    /\ display_tree' = g.display_tree
    /\ display_mass' = g.display_mass
    /\ display_wire' = g.display_wire
    /\ display_clear' = g.display_clear
    /\ display_ghostboxes' = g.display_ghostboxes
    /\ display_sphere_scale' = g.display_sphere_scale
    /\ glutIdle' = g.glutIdle

\* displayKey(key, x, y)
displayKey(key) ==
    /\ ~exited
    /\ nkeys < MaxKeys
    /\ nkeys' = nkeys + 1
    /\ UNCHANGED <<binVars, meshVars, schedVars, statVars, buildVars, sceneVars>>
    /\ IF key = "q"
       THEN /\ exited' = TRUE
            /\ UNCHANGED <<toggleVars, textureVars, gl_modelview, frame, tree_time>>
       ELSE /\ SetToggles(key_switch(Toggles, key))
            /\ UNCHANGED exited
            \* 'p' under LIBPNG: output_png_single forces a redraw when the
            \* display is paused; the call of display() that ends displayKey
            \* then returns at once
            /\ display(IF key = "p" /\ LIBPNG
                       THEN [key_switch(Toggles, key) EXCEPT !.display_pause = 0]
                       ELSE key_switch(Toggles, key),
                       IF key = "r" THEN zprReset ELSE gl_modelview,
                       Sim)

\* the display callback registered with glutDisplayFunc
glut_display ==
    /\ ~exited
    /\ display(Toggles, gl_modelview, Sim)
    /\ UNCHANGED <<binVars, meshVars, schedVars, statVars, buildVars, sceneVars, toggleVars, nkeys, exited>>

Cell(w, cx, cy, cz, mx, my, mz) ==
    [w |-> w, x |-> cx, y |-> cy, z |-> cz, mx |-> mx, my |-> my, mz |-> mz]

\* particles of radius 2 and of radius 0
Pbig == CHOOSE p \in Pool : p.r = 2

Ppoint == CHOOSE p \in Pool : p.r = 0

\* particles_add / particles_remove between two frames: the particle count
\* changes; the owner of the name table keeps it as long as the particle array
particles_change(change) ==
    /\ ~exited
    /\ CASE change = "add" ->
              /\ N(0) < MaxND
              /\ particles' = [particles EXCEPT ![0] = Append(@, Pbig)]
              /\ display_texture_name' =
                    IF display_texture_name.null THEN display_texture_name
                    ELSE [display_texture_name EXCEPT !.names = Append(@, "a")]
         [] change = "remove" ->
              /\ N(0) > 0
              /\ particles' = [particles EXCEPT ![0] = SubSeq(@, 1, Len(@) - 1)]
              /\ display_texture_name' =
                    IF display_texture_name.null THEN display_texture_name
                    ELSE [display_texture_name EXCEPT
                            !.names = SubSeq(@, 1, Len(@) - 1)]
    /\ UNCHANGED <<binVars, meshVars, schedVars, MPI, mpi_num, SEI, OMEGA, pc, i, A, Q, N_tot, A_tot,
                   Q_tot, dispfile>>
    /\ UNCHANGED <<buildVars, sceneVars, toggleVars, display_init_fancy_done,
                   display_texture_id, display_texture_path, gl_textures, loads,
                   allocs, gl_modelview, frame, nkeys, exited, tree_time>>

\* the problem file sets display_texture_name to a table of N names
set_texture_names ==
    /\ ~exited
    /\ display_texture_name.null
    /\ \E nm \in [1..N(0) -> TextureNames] :
          display_texture_name' = [null |-> FALSE, names |-> nm]
    /\ UNCHANGED <<binVars, meshVars, schedVars, statVars, buildVars, sceneVars, toggleVars,
                   display_init_fancy_done, display_texture_id, display_texture_path,
                   gl_textures, loads, allocs, gl_modelview, frame, nkeys, exited,
                   tree_time>>

\* the simulation state after one step from t: iterate() updates the tree
\* and its gravity data for the force calculation in the middle of the step,
\* then moves the particles to the end of the step
iterate_sim ==
    [Sim EXCEPT !.t = t + dt,
                !.tree = IF TREE THEN 2 * t + dt ELSE @,
                !.gravity = IF GRAVITY_TREE THEN 2 * t + dt ELSE @]

\* the idle callback registered with glutIdleFunc: one step of the
\* simulation followed by a frame
glut_idle ==
    /\ ~exited
    /\ glutIdle = "iterate"
    /\ t < MaxSimT
    /\ t' = t + dt
    /\ display(Toggles, gl_modelview, iterate_sim)
    /\ UNCHANGED <<dt, tmax, checked, log>>
    /\ UNCHANGED <<binVars, meshVars, statVars, buildVars, sceneVars, toggleVars, nkeys, exited>>

\* the setups drawn: an open box, a shearing sheet with ghost boxes in x and
\* y and a tree (problems/wakes), a periodic box with ghost boxes and a
\* tree without particle radii (problems/yacine), an empty periodic box
Scenes ==
    { [SEI |-> FALSE, nghost |-> <<0, 0, 0>>, TREE |-> FALSE, GRAVITY_TREE |-> FALSE,
       COLLISIONS_NONE |-> FALSE, ps |-> <<Pbig>>, N_active |-> -1,
       names |-> <<>>, LIBPNG |-> TRUE],
      [SEI |-> TRUE, nghost |-> <<MaxGhost, MaxGhost, 0>>, TREE |-> TRUE,
       GRAVITY_TREE |-> TRUE, COLLISIONS_NONE |-> FALSE, ps |-> <<Pbig, Ppoint>>,
       N_active |-> -1, names |-> <<"a", "a">>, LIBPNG |-> FALSE],
      [SEI |-> FALSE, nghost |-> <<0, 1, MaxGhost>>, TREE |-> TRUE,
       GRAVITY_TREE |-> TRUE, COLLISIONS_NONE |-> TRUE, ps |-> <<Ppoint, Pbig>>,
       N_active |-> 1, names |-> <<"a", "b">>, LIBPNG |-> TRUE],
      [SEI |-> FALSE, nghost |-> <<1, 0, 0>>, TREE |-> TRUE, GRAVITY_TREE |-> FALSE,
       COLLISIONS_NONE |-> FALSE, ps |-> <<>>, N_active |-> 0, names |-> <<>>,
       LIBPNG |-> FALSE] }

\* the state after problem_init and display_init for the setup sc
InitScene(sc) ==
    /\ BinsIdle
    /\ MeshIdle
    /\ t = 0 /\ dt = 1 /\ tmax = 0 /\ checked = FALSE /\ log = <<>>
    /\ MPI = FALSE /\ mpi_num = 1
    /\ SEI = sc.SEI
    /\ OMEGA = IF sc.SEI THEN RInt(1) ELSE RInt(0)
    /\ particles = [w \in {0} |-> sc.ps]
    /\ pc = [w \in {0} |-> "idle"]
    /\ i = [w \in {0} |-> 0]
    /\ A = [w \in {0} |-> Vec0]
    /\ Q = [w \in {0} |-> Vec0]
    /\ N_tot = 0 /\ A_tot = Vec0 /\ Q_tot = Vec0
    /\ dispfile = <<>>
    /\ COLLISIONS_NONE = sc.COLLISIONS_NONE
    /\ TREE = sc.TREE
    /\ LIBPNG = sc.LIBPNG
    /\ GRAVITY_TREE = sc.GRAVITY_TREE
    /\ box = [size |-> 2, x |-> 4, y |-> 2, z |-> 2]
    /\ nghost = sc.nghost
    /\ N_active = sc.N_active
    /\ tree_root = IF sc.TREE
                   THEN <<Cell(4, 0, 0, 0, 1, 0, -1), Cell(2, 1, 1, 1, 1, 0, -1)>>
                   ELSE <<>>
    /\ display_mode = 0
    /\ display_init_fancy_done = 0
    /\ display_pause_sim = 0
    /\ display_pause = 0
    /\ display_tree = 0
    /\ display_mass = 0
    /\ display_wire = 0
    /\ display_clear = 1
    /\ display_ghostboxes = 0
    /\ display_sphere_scale = RInt(1)
    /\ display_texture_id = [null |-> TRUE, ids |-> <<>>]
    /\ display_texture_name =
          IF sc.names = <<>> THEN [null |-> TRUE, names |-> <<>>]
          ELSE [null |-> FALSE, names |-> sc.names]
    /\ display_texture_path = "NULL"
    /\ glutIdle = "iterate"
    /\ gl_modelview = zprReset
    /\ gl_textures = 0
    /\ loads = <<>>
    /\ allocs = 0
    /\ frame = NoFrame
    /\ nkeys = 0
    /\ exited = FALSE
    /\ tree_time = [tree |-> 0, gravity |-> 0]

InitDisp ==
    /\ \E sc \in Scenes : InitScene(sc)
    /\ test_raw = TRUE
    /\ texture_files = TextureNames

NextDisp == (\E key \in Keys : displayKey(key)) \/ glut_display \/ glut_idle

SpecDisp == InitDisp /\ [][NextDisp]_vars

\* ------------------------------------------------------------------------
\* Properties of the ghost tiles of a frame
\* ------------------------------------------------------------------------
ZeroShift == <<RInt(0), RInt(0), RInt(0)>>

GhostsOff == display_ghostboxes = 0 \/ nghost = <<0, 0, 0>>

\* C6: in every frame produced, each tile leaves the model transform as it
\* found it (its ghost shift is undone before the next tile), and display()
\* returns with the model transform it was called with
C6_NetTransformIsIdentity ==
    frame.produced =>
        /\ \A n \in 1..Len(frame.tiles) :
              frame.tiles[n].mvOut = frame.tiles[n].mvIn
        /\ frame.mvEnd = frame.mvBase
        /\ frame.mvReturn = frame.mvStart

\* C7 (as amended): with no ghost boxes, or with display_ghostboxes off, a
\* frame visits exactly the tile (0,0,0) with shift (0,0,0), and the
\* enumeration of the tiles allocates nothing
C7_SingleTileWithoutGhosts ==
    (frame.produced /\ GhostsOff) =>
        /\ Len(frame.tiles) = 1
        /\ frame.tiles[1].idx = <<0, 0, 0>>
        /\ frame.tiles[1].shift = ZeroShift
        /\ frame.allocsAfter = frame.allocsAtTiles

\* a frame of a setup with ghost boxes in x, drawn with display_ghostboxes
\* off, in which display_init_fancy has allocated
C7_Witness ==
    /\ frame.produced
    /\ display_ghostboxes = 0
    /\ nghost[1] > 0
    /\ N(0) > 0
    /\ frame.initFancy
    /\ Len(frame.tiles) = 1
    /\ frame.allocsAtTiles > frame.allocsBefore

\* C7 as stated: ... and the whole frame allocates nothing
C7_FrameAllocatesNothing ==
    (frame.produced /\ GhostsOff) =>
        /\ Len(frame.tiles) = 1
        /\ frame.tiles[1].idx = <<0, 0, 0>>
        /\ frame.tiles[1].shift = ZeroShift
        /\ frame.allocsAfter = frame.allocsBefore

\* number of ghost boxes along axis ax, the box itself included
TilesAlong(ax) == 2 * nghost[ax] + 1

\* the n-th index triple in ascending lexicographic order, i outermost
TileIndex(n) ==
    << -nghost[1] + ((n - 1) \div (TilesAlong(2) * TilesAlong(3))),
       -nghost[2] + (((n - 1) \div TilesAlong(3)) % TilesAlong(2)),
       -nghost[3] + ((n - 1) % TilesAlong(3)) >>

\* C25: with display_ghostboxes on, a frame visits every index triple
\* (i,j,k) with |i| <= nghostx, |j| <= nghosty, |k| <= nghostz exactly once,
\* (2 nghostx + 1)(2 nghosty + 1)(2 nghostz + 1) tiles in ascending
\* lexicographic order, whatever the loops over the particles inside the tiles do
C25_TilesInLexicographicOrder ==
    (frame.produced /\ display_ghostboxes = 1) =>
        /\ Len(frame.tiles) = TilesAlong(1) * TilesAlong(2) * TilesAlong(3)
        /\ \A n \in 1..Len(frame.tiles) : frame.tiles[n].idx = TileIndex(n)

\* a frame of spheres with ghost boxes along two axes: nine tiles or more,
\* each with a loop over two particles
C25_Witness ==
    /\ frame.produced /\ display_ghostboxes = 1
    /\ frame.mode = 1
    /\ Len(frame.tiles) >= 9
    /\ frame.tiles[1].idx = <<-nghost[1], -nghost[2], -nghost[3]>>
    /\ \A n \in 1..Len(frame.tiles) : Len(frame.tiles[n].spheres) = 2

\* ------------------------------------------------------------------------
\* Properties of the keys
\* ------------------------------------------------------------------------
CycleKeys == {"s", "S"}

\* the three modes, and three presses of the cycle key from the current state
ModeCycleState ==
    /\ display_mode \in {0, 1, 2}
    /\ \A k1 \in CycleKeys : \A k2 \in CycleKeys : \A k3 \in CycleKeys :
          key_switch(key_switch(key_switch(Toggles, k1), k2), k3).display_mode
              = display_mode

\* a step of the program: the cycle key advances the mode 0 -> 1 -> 2 -> 0,
\* every other key and every frame leaves it alone (each implication
\* "action => effect" is written "effect \/ ~action")
ModeCycleStep ==
    /\ \A key \in Keys :
          \/ display_mode' = IF key \in CycleKeys /\ ~exited
                              THEN (display_mode + 1) % 3 ELSE display_mode
          \/ ~displayKey(key)
    /\ \/ display_mode' = display_mode
       \/ ~(glut_display \/ glut_idle)

\* C11: display_mode stays in {0,1,2}; each 's'/'S' press advances it
\* circularly, three presses restore it, and no other key changes it
C11_ModeCycle == [](ModeCycleState) /\ [][ModeCycleStep]_vars

\* three keys pressed, a frame has been drawn in mode 2 (display_init_fancy
\* has run) and the mode is 0 again
C11_Witness ==
    /\ nkeys = 3
    /\ display_init_fancy_done # 0
    /\ display_mode = 0
    /\ frame.produced /\ frame.mode = 0

\* the toggles other than the two pauses and the idle callback
OtherToggles == <<display_mode, display_tree, display_mass, display_wire,
                  display_clear, display_ghostboxes, display_sphere_scale>>

\* 'd' changes display_pause alone, ' ' changes display_pause_sim and the idle
\* callback alone; a frame asked for while display_pause = 0 is produced
\* whatever display_pause_sim is, and the step of the simulation is taken
\* whatever display_pause is (each implication "action => effect" is written
\* "effect \/ ~action")
PauseStep ==
    /\ \/ /\ display_pause' = Not(display_pause)
          /\ UNCHANGED <<display_pause_sim, glutIdle, OtherToggles, t>>
       \/ ~displayKey("d")
    /\ \/ /\ display_pause_sim' = Not(display_pause_sim)
          /\ glutIdle' = IF display_pause_sim = 0 THEN "NULL" ELSE "iterate"
          /\ UNCHANGED <<display_pause, OtherToggles, t>>
          /\ frame'.produced = (display_pause = 0)
       \/ ~displayKey(" ")
    /\ \/ frame'.produced = (display_pause = 0)
       \/ ~glut_display
    /\ \/ /\ t' = t + dt
          /\ frame'.produced = (display_pause = 0)
       \/ ~glut_idle

\* C12: the two pause toggles are independent
C12_PausesAreIndependent == [][PauseStep]_vars

\* the simulation is paused, rendering is not, and a frame has been produced
\* after the pause
C12_Witness ==
    /\ display_pause_sim # 0 /\ glutIdle = "NULL"
    /\ display_pause = 0
    /\ nkeys = 1
    /\ frame.produced

\* ------------------------------------------------------------------------
\* Properties of the frame
\* ------------------------------------------------------------------------
\* a step in which display_init_fancy_done changes starts from 0 and is a
\* frame produced in mode 2 that has called display_init_fancy
DoneChangesInFancyFrame ==
    (display_init_fancy_done' # display_init_fancy_done) =>
        /\ display_init_fancy_done = 0
        /\ frame'.produced /\ frame'.mode = 2 /\ frame'.initFancy

\* a new frame that has called display_init_fancy has left
\* display_init_fancy_done other than 0, so that no later frame calls it
FancyFrameSetsDone ==
    (frame' # frame /\ frame'.produced /\ frame'.initFancy) =>
        /\ display_init_fancy_done = 0
        /\ display_init_fancy_done' \in {-2, -1, 1}

\* C22: over any sequence of keys and frames display_init_fancy runs at most
\* once, only inside a frame that is produced (display() has found
\* display_pause = 0) in mode 2, and display_init_fancy_done never returns
\* to 0 once it has left it
C22_TextureResolutionRunsOnce ==
    [][DoneChangesInFancyFrame /\ FancyFrameSetsDone]_vars

\* three keys pressed: the resolution has run, and the last frame has been
\* produced in mode 2 without running it again
C22_Witness ==
    /\ nkeys = 3
    /\ display_init_fancy_done # 0
    /\ display_mode = 2
    /\ frame.produced /\ frame.mode = 2 /\ ~frame.initFancy

\* the particles of the frame have been drawn in the tile according to the
\* mode of the frame: the two batches of points, or one sphere per particle
TileDrawsParticles(tile) ==
    CASE frame.mode = 0 -> Len(tile.points) = 2
      [] frame.mode = 1 -> Len(tile.spheres) = frame.N
      [] frame.mode = 2 -> Len(tile.textured) = frame.N

\* the orbits drawn in the tile are those of the particles 1..N-1 when
\* display_wire is set, and none otherwise
TileDrawsWires(tile) ==
    tile.wires = IF display_wire # 0 THEN [n \in 1..(frame.N - 1) |-> n] ELSE <<>>

\* C23: in every produced frame and every tile the particles are drawn
\* according to the mode whatever display_wire and display_clear are (in
\* mode 2: once the textures are resolved); display_wire only adds the orbits
\* of the particles 1..N-1
C23_WiresNeverSuppressParticles ==
    (frame.produced /\ (frame.mode = 2 => display_init_fancy_done > 0)) =>
        \A n \in 1..Len(frame.tiles) :
            /\ TileDrawsParticles(frame.tiles[n])
            /\ TileDrawsWires(frame.tiles[n])

\* the indices drawn by glDrawArrays(GL_POINTS, first, count): none when
\* count is not positive
BatchIndices(b) == {k \in b.first..(b.first + b.count - 1) : b.count > 0}

\* the indices of the frame's particles at or above the cutoff, and below it
DimIndices == {k \in 0..(frame.N - 1) : N_active # -1 /\ k >= N_active}

BrightIndices == {k \in 0..(frame.N - 1) : N_active = -1 \/ k < N_active}

\* C24: in mode 0 each tile that draws the particles draws every index of
\* [0, N) exactly once and no other index: the indices at or above the cutoff
\* in the dim batch, those below it in the bright batch, and all N in the
\* bright batch when there is no cutoff
C24_PointsDrawEachIndexOnce ==
    (frame.produced /\ frame.mode = 0) =>
        \A n \in 1..Len(frame.tiles) :
            frame.tiles[n].points # <<>> =>
                /\ BatchIndices(frame.tiles[n].points[1]) = DimIndices
                /\ BatchIndices(frame.tiles[n].points[2]) = BrightIndices

\* the transforms in force at the start of the iterations of the sphere loop
\* of a tile (mode 1 or mode 2), followed by the transform the loop leaves
SeenBySpheres(tile) == (tile.spheres \o tile.textured) \o <<tile.mvDrawn>>

\* C21: in modes 1 and 2 translate, scale by s, draw, scale by 1/s, translate
\* back leaves the model transform exactly as it was before the particle,
\* whatever its radius and display_sphere_scale: the transform seen by
\* particle i+1 is the one seen by particle i
C21_SphereLeavesTransform ==
    (frame.produced /\ frame.mode \in {1, 2}) =>
        \A n \in 1..Len(frame.tiles) :
            \A k \in 1..(Len(SeenBySpheres(frame.tiles[n])) - 1) :
                SeenBySpheres(frame.tiles[n])[k + 1] = SeenBySpheres(frame.tiles[n])[k]

TexKeys == {"s", "d"}

\* the cutoffs the problem file supplies: none, or the first two particles
Cutoffs == {-1, 2}

\* an open box with 1..MaxND particles; display_texture_name is NULL until
\* the problem file sets it
TexScenes ==
    { [SEI |-> FALSE, nghost |-> <<0, 0, 0>>, TREE |-> FALSE,
       GRAVITY_TREE |-> FALSE, COLLISIONS_NONE |-> FALSE,
       ps |-> [n \in 1..sc[1] |-> Pbig], N_active |-> sc[2], names |-> <<>>,
       LIBPNG |-> FALSE] : sc \in (1..MaxND) \X Cutoffs }

InitTex ==
    /\ \E sc \in TexScenes : InitScene(sc)
    /\ test_raw \in BOOLEAN
    /\ texture_files \in (IF test_raw THEN {TextureNames, {"a"}} ELSE {{}})

NextTex ==
    \/ \E key \in TexKeys : displayKey(key)
    \/ glut_display
    \/ \E change \in {"add", "remove"} : particles_change(change)
    \/ set_texture_names

SpecTex == InitTex /\ [][NextTex]_vars

\* ------------------------------------------------------------------------
\* Properties of the texture cache
\* ------------------------------------------------------------------------
Occurrences(seq, x) == Cardinality({n \in 1..Len(seq) : seq[n] = x})

\* C8: in the frame in which display_init_fancy builds the table from N
\* names, equal names have equal handles and display_load_texture has been
\* called exactly once for each distinct name
C8_EqualNamesShareOneHandle ==
    (frame.produced /\ frame.initFancy /\ display_init_fancy_done = 1) =>
        LET names == frame.names.names
        IN  /\ Len(frame.ids) = Len(names)
            /\ \A a \in 1..Len(names) : \A b \in 1..Len(names) :
                  names[a] = names[b] => frame.ids[a] = frame.ids[b]
            /\ \A name \in TextureNames :
                  Occurrences(frame.loads, name) =
                      IF Occurrences(names, name) > 0 THEN 1 ELSE 0

\* the names a, b, a resolved to handles with two loads
C8_Witness ==
    /\ frame.produced
    /\ frame.initFancy
    /\ display_init_fancy_done = 1
    /\ frame.names.names = <<"a", "b", "a">>
    /\ frame.ids[1] = frame.ids[3]
    /\ frame.ids[1] # frame.ids[2]
    /\ Len(frame.loads) = 2

\* C9: in every frame drawn in mode 2 with a table built, the table has
\* exactly N handles and every index read while drawing lies inside it
C9_TableRebuiltForN ==
    (frame.produced /\ frame.mode = 2 /\ display_init_fancy_done = 1) =>
        /\ frame.table = frame.N
        /\ \A n \in 1..Len(frame.tiles) :
              \A r \in 1..Len(frame.tiles[n].reads) :
                  frame.tiles[n].reads[r] < frame.table

\* C10: a frame drawn in mode 2 once the name table has been supplied (the
\* texture directory can be found) has the handle table built
C10_LateNameTableIsResolved ==
    (frame.produced /\ frame.mode = 2 /\ ~frame.names.null /\ test_raw) =>
        /\ display_init_fancy_done = 1
        /\ ~display_texture_id.null

\* the particles drawn in a tile, whatever the mode
DrawnInTile(tile) ==
    IF tile.points # <<>> THEN tile.points[1].count + tile.points[2].count
    ELSE Len(tile.spheres) + Len(tile.textured)

\* C13: when display_init_fancy has ended without a search path (-1) or
\* without a name table (-2), the handle table is neither allocated nor read,
\* and a frame in mode 2 still draws every particle, untextured
C13_UnavailableFallsBackUntextured ==
    (frame.produced /\ frame.mode = 2 /\ display_init_fancy_done < 0) =>
        /\ display_texture_id.null
        /\ \A n \in 1..Len(frame.tiles) :
              /\ frame.tiles[n].reads = <<>>
              /\ particlesDrawn(Toggles) => DrawnInTile(frame.tiles[n]) = frame.N

\* ------------------------------------------------------------------------
\* problems/yacine/problem.c: velocity_bins_add
\* ------------------------------------------------------------------------
\* int velocity_bins_N = 256: the number of bins
velocity_bins_N == 256

\* double velocity_bins_max = 1: the speed at the upper end of the histogram
velocity_bins_max == 1

\* calloc(sizeof(long),velocity_bins_N): velocity_bins_N counters, all zero,
\* at the indices 0 .. velocity_bins_N-1
calloc_bins == [b \in 0..(velocity_bins_N - 1) |-> 0]

\* the particles of the histogram: velocity (in eighths) and charge
BinParticle(vx, vy, vz, q) ==
    [vx |-> Frac(vx, 8), vy |-> Frac(vy, 8), vz |-> Frac(vz, 8), q |-> q]

BinPool ==
    { BinParticle(0, 0, 0, 1),      \* at rest
      BinParticle(1, 0, 0, -1),     \* v = 1/8
      BinParticle(3, 4, 0, 1),      \* v = 5/8
      BinParticle(-4, 0, 0, -1),    \* v = 1/2
      BinParticle(4, 4, 0, -1),     \* v = sqrt(1/2)
      BinParticle(8, 0, 0, 1),      \* v = velocity_bins_max
      BinParticle(0, 0, 8, -1),     \* v = velocity_bins_max
      BinParticle(9, 0, 0, 1) }     \* v = 9/8 > velocity_bins_max

BinSeqsUpTo(n) == UNION {[1..k -> BinPool] : k \in 0..n}

\* p.vx*p.vx + p.vy*p.vy + p.vz*p.vz
Speed2(p) == RAdd(RAdd(RMul(p.vx, p.vx), RMul(p.vy, p.vy)), RMul(p.vz, p.vz))

\* (int)ceil(v/velocity_bins_max*(double)velocity_bins_N) with v = sqrt(v2):
\* the least integer b >= 0 with b*velocity_bins_max >= velocity_bins_N*v
bin_of(v2) ==
    CHOOSE b \in 0..(2 * velocity_bins_N) :
        LET reaches(c) == c * c * velocity_bins_max * velocity_bins_max * v2[2]
                            >= velocity_bins_N * velocity_bins_N * v2[1]
        IN  reaches(b) /\ (b = 0 \/ ~reaches(b - 1))

\* velocity_bins_protons[bin]++ with bin outside the allocated array is
\* undefined: the increment lands in the memory behind the array, or the
\* process is killed
OverrunOutcomes == {"overrun", "crashed"}

\* problem_output calls velocity_bins_add: entry of the function
velocity_bins_add ==
    /\ bin_pc \in {"idle", "returned"}
    /\ bin_calls < MaxCalls
    /\ bin_calls' = bin_calls + 1
    /\ bin_i' = 0
    /\ bin_pc' = IF 0 < Len(bin_particles) THEN "loop" ELSE "returned"
    /\ UNCHANGED <<velocity_bins_electrons, velocity_bins_protons,
                   bin_particles, bin_used>>
    /\ UNCHANGED <<schedVars, statVars, dispVars, meshVars>>

\* one iteration of for (int i=0;i<N;i++) in velocity_bins_add
velocity_bins_loop ==
    /\ bin_pc = "loop"
    /\ LET p == bin_particles[bin_i + 1]
           bin == bin_of(Speed2(p))
           next == IF bin_i + 1 < Len(bin_particles) THEN "loop" ELSE "returned"
       IN  IF bin < 0 \/ bin > velocity_bins_N
           THEN /\ bin_pc' = next
                /\ UNCHANGED <<velocity_bins_electrons, velocity_bins_protons,
                               bin_used>>
           ELSE IF bin \in DOMAIN velocity_bins_protons
           THEN /\ bin_pc' = next
                /\ velocity_bins_protons' =
                      IF p.q > 0
                      THEN [velocity_bins_protons EXCEPT ![bin] = @ + 1]
                      ELSE velocity_bins_protons
                /\ velocity_bins_electrons' =
                      IF p.q > 0
                      THEN velocity_bins_electrons
                      ELSE [velocity_bins_electrons EXCEPT ![bin] = @ + 1]
                /\ bin_used' = Append(bin_used, bin)
           ELSE /\ \E outcome \in OverrunOutcomes :
                      bin_pc' = IF outcome = "crashed" THEN "crashed" ELSE next
                /\ bin_used' = Append(bin_used, bin)
                /\ UNCHANGED <<velocity_bins_electrons, velocity_bins_protons>>
    /\ bin_i' = bin_i + 1
    /\ UNCHANGED <<bin_particles, bin_calls>>
    /\ UNCHANGED <<schedVars, statVars, dispVars, meshVars>>

\* the state after problem_init of problems/yacine; the particles are some
\* of the pool
InitBins ==
    /\ StatIdle
    /\ MeshIdle
    /\ DispIdle
    /\ t = 0 /\ dt = 1 /\ tmax = 0 /\ checked = FALSE /\ log = <<>>
    /\ velocity_bins_electrons = calloc_bins
    /\ velocity_bins_protons = calloc_bins
    /\ bin_particles \in BinSeqsUpTo(MaxBinN)
    /\ bin_i = 0 /\ bin_pc = "idle" /\ bin_calls = 0
    /\ bin_used = <<>>

NextBins == velocity_bins_add \/ velocity_bins_loop

SpecBins == InitBins /\ [][NextBins]_vars

\* ------------------------------------------------------------------------
\* Properties of the velocity histogram
\* ------------------------------------------------------------------------
\* C27: every bin index velocity_bins_add uses for an increment lies in
\* 0 .. velocity_bins_N-1, the allocated length of both arrays: no increment
\* is made outside the arrays
C27_BinIndexInRange ==
    /\ bin_pc # "crashed"
    /\ \A n \in 1..Len(bin_used) :
          0 <= bin_used[n] /\ bin_used[n] < velocity_bins_N

\* ------------------------------------------------------------------------
\* display.c: display_init, the construction of the sphere
\* ------------------------------------------------------------------------
\* (GLushort) n
GLushort(n) == n % 65536

\* calloc(VertexCount, sizeof(vbo)): vertices of zeros, none written yet
calloc_vbo(n) == [v \in 0..(n - 1) |-> [rho |-> 0, theta |-> 0, writes |-> 0]]

\* calloc(IndicesCount, sizeof(GLushort))
calloc_indices(n) == [k \in 0..(n - 1) |-> 0]

\* mutant: the last ring starts a strip as well
strip_row_last(ring, n) == ring <= n

\* if (i<stacks): the ring starts a row of the strip
strip_row(ring, n) == ring < n

\* VertexCount, IndicesCount, the two calloc and the entry of the loops
display_init_alloc ==
    /\ mesh_pc = "init"
    /\ VertexCount' = (slices + 1) * (stacks + 1)
    /\ IndicesCount' = 2 * (slices + 1) * stacks
    /\ sphereVBO' = calloc_vbo((slices + 1) * (stacks + 1))
    /\ triangleStripIndices' = calloc_indices(2 * (slices + 1) * stacks)
    /\ idx_writes' = calloc_indices(2 * (slices + 1) * stacks)
    /\ counter' = 0
    /\ mesh_i' = 0 /\ mesh_j' = 0
    /\ mesh_pc' = IF 0 <= stacks /\ 0 <= slices THEN "loop" ELSE "filled"
    /\ UNCHANGED <<stacks, slices, outside>>
    /\ UNCHANGED <<schedVars, statVars, dispVars, binVars>>

\* the stores of one vertex into the index array, or outside of it
strip_stores ==
    IF strip_row(mesh_i, stacks)
    THEN << [at |-> 2 * counter,     val |-> GLushort(counter)],
            [at |-> 2 * counter + 1, val |-> GLushort(counter + (slices + 1))] >>
    ELSE <<>>

\* the index array after the stores st that fall inside of it
RECURSIVE store_all(_, _)
store_all(arr, st) ==
    IF st = <<>> THEN arr
    ELSE store_all(IF st[1].at \in DOMAIN arr
                   THEN [arr EXCEPT ![st[1].at] = st[1].val]
                   ELSE arr,
                   Tail(st))

\* the write counts after the stores st
RECURSIVE count_all(_, _)
count_all(cnt, st) ==
    IF st = <<>> THEN cnt
    ELSE count_all(IF st[1].at \in DOMAIN cnt
                   THEN [cnt EXCEPT ![st[1].at] = @ + 1]
                   ELSE cnt,
                   Tail(st))

\* the stores that fall outside of the arrays (undefined behaviour)
stores_outside ==
    {[array |-> "triangleStripIndices", at |-> strip_stores[n].at] :
        n \in {m \in 1..Len(strip_stores) :
                  strip_stores[m].at \notin DOMAIN triangleStripIndices}}
    \cup (IF counter \in DOMAIN sphereVBO THEN {}
          ELSE {[array |-> "sphereVBO", at |-> counter]})

\* a store outside of an array lands in other memory, or kills the process
MeshOutcomes == IF stores_outside = {} THEN {"stored"} ELSE {"stored", "crashed"}

\* one iteration of for (int j = 0; j <= slices; j++) inside
\* for (int i = 0; i <= stacks; i++)
display_init_loop ==
    /\ mesh_pc = "loop"
    /\ sphereVBO' = IF counter \in DOMAIN sphereVBO
                    THEN [sphereVBO EXCEPT ![counter] =
                             [rho |-> mesh_i, theta |-> mesh_j,
                              writes |-> @.writes + 1]]
                    ELSE sphereVBO
    /\ triangleStripIndices' = store_all(triangleStripIndices, strip_stores)
    /\ idx_writes' = count_all(idx_writes, strip_stores)
    /\ outside' = outside \cup stores_outside
    /\ counter' = counter + 1
    /\ mesh_j' = IF mesh_j + 1 <= slices THEN mesh_j + 1 ELSE 0
    /\ mesh_i' = IF mesh_j + 1 <= slices THEN mesh_i ELSE mesh_i + 1
    /\ \E outcome \in MeshOutcomes :
          mesh_pc' = IF outcome = "crashed" THEN "crashed"
                     ELSE IF mesh_j + 1 <= slices \/ mesh_i + 1 <= stacks
                          THEN "loop" ELSE "filled"
    /\ UNCHANGED <<stacks, slices, VertexCount, IndicesCount>>
    /\ UNCHANGED <<schedVars, statVars, dispVars, binVars>>

\* the sizes of the sphere: small ones, and the 32 stacks and 64 slices of
\* display_init
MeshSizes == ((1..MaxStacks) \X (1..MaxSlices)) \cup {<<32, 64>>}

\* display_init has reached the construction of the sphere
InitMesh ==
    /\ StatIdle
    /\ DispIdle
    /\ BinsIdle
    /\ t = 0 /\ dt = 1 /\ tmax = 0 /\ checked = FALSE /\ log = <<>>
    /\ \E sz \in MeshSizes : stacks = sz[1] /\ slices = sz[2]
    /\ VertexCount = 0 /\ IndicesCount = 0
    /\ sphereVBO = <<>> /\ triangleStripIndices = <<>>
    /\ counter = 0 /\ mesh_i = 0 /\ mesh_j = 0
    /\ mesh_pc = "init"
    /\ idx_writes = <<>> /\ outside = {}

NextMesh == display_init_alloc \/ display_init_loop

SpecMesh == InitMesh /\ [][NextMesh]_vars

\* ------------------------------------------------------------------------
\* Properties of the sphere
\* ------------------------------------------------------------------------
\* the ring and the slice of vertex v
RingOf(v) == sphereVBO[v].rho

SliceOf(v) == sphereVBO[v].theta

\* no store is made outside of the arrays
StoresInside ==
    /\ outside = {} /\ mesh_pc # "crashed"
    /\ counter <= VertexCount

\* every vertex and every position of the index array is stored exactly once
StoredOnce ==
    /\ counter = VertexCount
    /\ \A v \in 0..(VertexCount - 1) : sphereVBO[v].writes = 1
    /\ \A k \in 0..(IndicesCount - 1) : idx_writes[k] = 1

\* the pair of indices at the positions 2c and 2c+1 joins a vertex of a ring
\* to the vertex of the next ring at the same slice
PairsRings(c) ==
    LET a == triangleStripIndices[2 * c]
        b == triangleStripIndices[2 * c + 1]
    IN  /\ a < VertexCount /\ b < VertexCount
        /\ RingOf(b) = RingOf(a) + 1
        /\ SliceOf(b) = SliceOf(a)

\* C28: the construction of the sphere writes exactly
\* VertexCount = (slices+1)(stacks+1) vertices; every store into the index
\* array is at a position < IndicesCount = 2(slices+1)stacks, every position
\* is stored exactly once, and the indices stored are vertices < VertexCount,
\* in pairs of a vertex of a ring and the vertex of the next ring at the
\* same slice
C28_SphereMeshFillsItsArrays ==
    (mesh_pc # "init") =>
        /\ VertexCount = (slices + 1) * (stacks + 1)
        /\ IndicesCount = 2 * (slices + 1) * stacks
        /\ StoresInside
        /\ mesh_pc = "filled" =>
              /\ StoredOnce
              /\ \A c \in 0..((slices + 1) * stacks - 1) : PairsRings(c)

\* a sphere of several rings and slices is complete, and its last pair of
\* indices ends at the last vertex
C28_Witness ==
    /\ mesh_pc = "filled" /\ stacks >= 2 /\ slices >= 2
    /\ counter = (slices + 1) * (stacks + 1)
    /\ triangleStripIndices[IndicesCount - 1] = VertexCount - 1

====
